---------------------------- MODULE Spec2Model ----------------------------
(***************************************************************************)
(* Model of the quiz pipeline of multi-agent-system-gbl:                   *)
(*   agents.py            run_curriculum_agent, process_single_chunk,      *)
(*                        run_quiz_generator_agent,                        *)
(*                        run_quiz_validator_agent, run_adaptive_agent     *)
(*   app.py               generate_adaptive_quiz                           *)
(*   firebase_service.py  the student records the adaptive agent reads     *)
(*                                                                         *)
(* A text (a document, a completion) is a sequence of lexical units, each  *)
(* a string: a letter, a blank, a line break, a JSON punctuation mark, a   *)
(* JSON literal, or a whole JSON string literal (written with its quotes). *)
(* Slicing a text is SubSeq; its length is Len.                            *)
(***************************************************************************)
EXTENDS Integers, Sequences, FiniteSets, TLC

VARIABLES
    pc,            \* position of the operation under way
    text,          \* run_curriculum_agent: the document text
    chunk_size,    \* run_curriculum_agent: the target chunk size
    chunks,        \* run_curriculum_agent: the chunks emitted by the chunker
    book_id,       \* run_curriculum_agent: the book the chunks belong to
    callYields,    \* whether awaiting the completion capability suspends the task
    batchStart,    \* run_curriculum_agent: i, the 0-based start of the batch
    wstate,        \* per chunk, the state of its process_single_chunk task
    slots,         \* per chunk, what its task returned to asyncio.gather
    delivered,     \* per chunk, what the completion capability answered
    order,         \* the chunks in the order their tasks finished
    db_chunks,     \* run_curriculum_agent: the aggregated results
    index,         \* the chunks held by the vector index
    inserted_chunks, \* run_curriculum_agent: the count it returns, -1 before
    topic,         \* the topic of the quiz asked for
    retrieved,     \* what the query of the vector index returned
    context,       \* the context parts put in the prompt
    raw,           \* what the completion capability answered last
    questions,     \* the questions an agent returns, None before
    error,         \* the exception that ended the operation, "" if none
    auto_fix,      \* run_quiz_validator_agent: whether invalid questions are repaired
    results,       \* run_quiz_validator_agent: the result of each question so far
    calls,         \* per question, the validation and repair calls made for it
                   \* and what they returned (raw and raw_fix)
    students,      \* the student records of the database, by external id
    history,       \* the attempts in the history of each student
    recorded,      \* per student, the responses clients have submitted
    student_id,    \* the learner a quiz is adapted to
    student_responses, \* generate_adaptive_quiz: the responses of the request
    hist,          \* run_adaptive_agent: history, the responses it averages
    avg_time,      \* run_adaptive_agent: avg_time, a fraction
    avg_hints,     \* run_adaptive_agent: avg_hints, a fraction
    difficulty_hint, \* run_adaptive_agent: the directive
    books,         \* the book records of the database, in the order of their creation
    quizzes,       \* the quizzes of the database, in the order of their creation
    upload_folder, \* per file name of UPLOAD_FOLDER, the request whose upload the
                   \* file holds, 0 if there is no such file
    requests       \* per server worker, the generate_quiz request it handles:
                   \* its position, the name and the text of its upload (the
                   \* request the text was uploaded by) and its response status

chunkVars == <<text, chunk_size, chunks>>
batchVars == <<book_id, callYields, batchStart, wstate, slots, delivered, order,
               db_chunks, index, inserted_chunks>>
genVars == <<topic, retrieved, context, raw, questions, error>>
valVars == <<auto_fix, results, calls>>
storeVars == <<students, history, recorded>>
adaptVars == <<student_id, student_responses, hist, avg_time, avg_hints,
               difficulty_hint>>
uploadVars == <<upload_folder, requests>>
appVars == <<books, quizzes, uploadVars>>
quizVars == <<genVars, valVars, storeVars, adaptVars, appVars>>
vars == <<pc, chunkVars, batchVars, quizVars>>

\* gunicorn.conf.py: the worker processes of the server
workers == 3

\* the names uploaded files are saved under
UploadNames == {"a.pdf", "b.pdf"}

\* no file in the folder and no request under way
IdleUpload ==
    /\ upload_folder = [name \in UploadNames |-> 0]
    /\ requests = [w \in 1..workers |->
                       [pc |-> "idle", filename |-> "", text |-> 0, status |-> 0]]

(***************************************************************************)
(* Bounds of the model.                                                    *)
(***************************************************************************)
MaxTextLen == 7
MaxChunkSize == 5
\* the short paragraphs of the documents given to the curriculum agent
CurParas == 4
\* the length of a long paragraph and of a long completion
LongLen == 205
\* the questions in an array the completion capability returns
MaxQuestions == 2
\* the responses in a history the difficulty policy is tried on, and the
\* attempts in the history of a student
MaxHistory == 2
MaxBooks == 2
\* the quizzes of the record store, the attempts recorded for a quiz, and the
\* questions of a long quiz
MaxQuizzes == 1
MaxAttempts == 2
ManyQuestions == 11

(***************************************************************************)
(* Constants of the program.                                               *)
(***************************************************************************)
\* batch_size = 3
BatchSize == 3
\* raw[:200], chunk['text'][:200]
SummaryLen == 200
\* chunk_size=2000 in generate_quiz
AppChunkSize == 2000
\* db_chunks[:10], the results shown in the summary of the run
SummaryShown == 10
\* the results asked of the index by the generator, the validator and the
\* adaptive agent
GeneratorWidth == 6
ValidatorWidth == 8
AdaptiveWidth == 6
\* raw[:300], the reason kept when a validation is not JSON
ReasonLen == 300
\* the neutral avg_time and the thresholds of the difficulty policy
DefaultTime == 20000
FastTime == 15000
SlowTime == 30000

(***************************************************************************)
(* Texts.                                                                  *)
(***************************************************************************)
NL == "\n"
SP == " "
ParaSep == <<NL, NL>>

IsSpace(c) == c \in {SP, NL}

Min(a, b) == IF a < b THEN a ELSE b

\* Python's s[:n]
Prefix(s, n) == SubSeq(s, 1, Min(n, Len(s)))

\* Python's s[i:] for a 1-based first index i
Suffix(s, i) == SubSeq(s, i, Len(s))

\* the indexes of a set in ascending order
RECURSIVE Ascending(_)
Ascending(S) ==
    IF S = {} THEN <<>>
    ELSE LET lo == CHOOSE x \in S : \A y \in S : x <= y
         IN  <<lo>> \o Ascending(S \ {lo})

\* sep.join(parts)
RECURSIVE Join(_, _)
Join(parts, sep) ==
    IF parts = <<>> THEN <<>>
    ELSE IF Len(parts) = 1 THEN Head(parts)
    ELSE Head(parts) \o sep \o Join(Tail(parts), sep)

\* str.strip()
Strip(s) ==
    LET keep == {i \in 1..Len(s) : ~IsSpace(s[i])}
    IN  IF keep = {} THEN <<>>
        ELSE LET lo == CHOOSE i \in keep : \A j \in keep : i <= j
                 hi == CHOOSE i \in keep : \A j \in keep : j <= i
             IN  SubSeq(s, lo, hi)

\* The end of the match of \n\s*\n that starts at i (s[i] is a line break):
\* \s* is greedy, so the match ends at the last line break of the run of
\* white space that follows i; 0 when there is no match at i.
MatchEnd(s, i) ==
    LET stops == {j \in (i + 1)..Len(s) : ~IsSpace(s[j])}
        stop == IF stops = {} THEN Len(s) + 1
                ELSE CHOOSE j \in stops : \A k \in stops : j <= k
        ends == {j \in (i + 1)..(stop - 1) : s[j] = NL}
    IN  IF ends = {} THEN 0
        ELSE CHOOSE j \in ends : \A k \in ends : k <= j

\* The places where the matches of \n\s*\n start, the leftmost first: a line
\* break that starts a match and lies in no earlier match, which is the first
\* line break of its run of white space.
MatchStarts(s) ==
    {i \in 1..Len(s) :
        /\ s[i] = NL
        /\ MatchEnd(s, i) > 0
        /\ LET before == {j \in 1..(i - 1) : s[j] # SP}
           IN  before = {} \/ s[CHOOSE j \in before : \A k \in before : k <= j] # NL}

\* re.split(r'\n\s*\n', s): the pieces between the matches
ReSplit(s) ==
    LET starts == Ascending(MatchStarts(s))
        n == Len(starts)
    IN  [p \in 1..(n + 1) |->
            SubSeq(s,
                   IF p = 1 THEN 1 ELSE MatchEnd(s, starts[p - 1]) + 1,
                   IF p = n + 1 THEN Len(s) ELSE starts[p] - 1)]

\* [p.strip() for p in re.split(...) if p.strip()]
RECURSIVE StripNonEmpty(_)
StripNonEmpty(pieces) ==
    IF pieces = <<>> THEN <<>>
    ELSE LET p == Strip(Head(pieces))
         IN  IF p = <<>> THEN StripNonEmpty(Tail(pieces))
             ELSE <<p>> \o StripNonEmpty(Tail(pieces))

Paragraphs(s) == StripNonEmpty(ReSplit(s))

\* combined = f"{current}\n\n{para}" if current else para
Combined(current, para) ==
    IF current # <<>> THEN current \o ParaSep \o para ELSE para

\* a test of the buffer alone, not of the buffer with the paragraph added
EmitsChunkBuffer(current, para, size) ==
    Len(current) > size /\ current # <<>>

\* if len(combined) > chunk_size and current: emit current, restart with para
EmitsChunk(current, para, size) ==
    Len(Combined(current, para)) > size /\ current # <<>>

\* a buffer that restarts empty, losing the paragraph that did not fit
NextCurrentLosing(current, para, size) ==
    IF EmitsChunk(current, para, size) THEN <<>> ELSE Combined(current, para)

\* the buffer after the paragraph has been taken
NextCurrent(current, para, size) ==
    IF EmitsChunk(current, para, size) THEN para ELSE Combined(current, para)

\* if current: chunks.append({"position": position, "text": current})
FinalChunks(acc, current, position) ==
    IF current # <<>>
    THEN Append(acc, [position |-> position, text |-> current])
    ELSE acc

\* the loop over the paragraphs and the final flush
RECURSIVE ChunkLoop(_, _, _, _, _)
ChunkLoop(paras, current, position, acc, size) ==
    IF paras = <<>> THEN FinalChunks(acc, current, position)
    ELSE LET para == Head(paras)
         IN  IF EmitsChunk(current, para, size)
             THEN ChunkLoop(Tail(paras), NextCurrent(current, para, size),
                            position + 1,
                            Append(acc, [position |-> position, text |-> current]),
                            size)
             ELSE ChunkLoop(Tail(paras), NextCurrent(current, para, size),
                            position, acc, size)

Chunker(s, size) == ChunkLoop(Paragraphs(s), <<>>, 0, <<>>, size)

(***************************************************************************)
(* JSON.  A parsed value is a record [k, v]: k its kind, v its content:    *)
(*   "str"  a string, v its units         "lit"  true, false or null       *)
(*   "num"  a number                      "arr"  an array, v its elements  *)
(*   "obj"  an object, v a function from its keys (strings) to values      *)
(* In a text a string literal is a quote mark, the units of the string and *)
(* a quote mark.                                                           *)
(***************************************************************************)
QT == "\""

JStr(s) == [k |-> "str", v |-> s]
JLit(name) == [k |-> "lit", v |-> <<name>>]
JNum(digits) == [k |-> "num", v |-> digits]
JArr(elems) == [k |-> "arr", v |-> elems]
JObj(members) == [k |-> "obj", v |-> members]
JNull == JLit("null")

IsObj(val) == val.k = "obj"
IsArr(val) == val.k = "arr"

LitUnits == {"true", "false", "null"}
NumUnits == {"0", "1"}

\* bool(value) in Python
Truthy(val) ==
    CASE val.k = "str" -> val.v # <<>>
      [] val.k = "lit" -> val.v = <<"true">>
      [] val.k = "num" -> val.v # <<"0">>
      [] val.k = "arr" -> val.v # <<>>
      [] val.k = "obj" -> DOMAIN val.v # {}

\* dict.get(key, default)
Get(obj, key, default) ==
    IF key \in DOMAIN obj.v THEN obj.v[key] ELSE default

ParseFail == [ok |-> FALSE, val |-> JNull, next |-> 0]
ParseOk(val, next) == [ok |-> TRUE, val |-> val, next |-> next]

\* the first index at or after i that holds no white space
RECURSIVE SkipSpace(_, _)
SkipSpace(t, i) ==
    IF i <= Len(t) /\ IsSpace(t[i]) THEN SkipSpace(t, i + 1) ELSE i

\* the index of the quote mark closing the string opened before i, 0 if none
ClosingQuote(t, i) ==
    LET qs == {j \in i..Len(t) : t[j] = QT}
    IN  IF qs = {} THEN 0 ELSE CHOOSE j \in qs : \A q \in qs : j <= q

\* a string literal starting at the quote mark t[i]; a raw line break inside a
\* string is an error for json.loads
ParseString(t, i) ==
    LET q == ClosingQuote(t, i + 1)
    IN  IF q = 0 \/ \E j \in (i + 1)..(q - 1) : t[j] = NL
        THEN ParseFail
        ELSE ParseOk(JStr(SubSeq(t, i + 1, q - 1)), q + 1)

\* a number starting at the digit t[i]: the whole run of digits, which may
\* start with 0 only when it is 0 alone
ParseNumber(t, i) ==
    LET after == {j \in (i + 1)..(Len(t) + 1) : j > Len(t) \/ t[j] \notin NumUnits}
        e == CHOOSE j \in after : \A a \in after : j <= a
    IN  IF t[i] = "0" /\ e > i + 1 THEN ParseOk(JNum(<<"0">>), i + 1)
        ELSE ParseOk(JNum(SubSeq(t, i, e - 1)), e)

RECURSIVE ParseValue(_, _), ParseElems(_, _, _), ParseMembers(_, _, _)

\* one JSON value starting at or after i
ParseValue(t, i) ==
    LET j == SkipSpace(t, i)
    IN  IF j > Len(t) THEN ParseFail
        ELSE CASE t[j] = "[" ->
                    LET j2 == SkipSpace(t, j + 1)
                    IN  IF j2 <= Len(t) /\ t[j2] = "]"
                        THEN ParseOk(JArr(<<>>), j2 + 1)
                        ELSE ParseElems(t, j + 1, <<>>)
               [] t[j] = "{" ->
                    LET j2 == SkipSpace(t, j + 1)
                    IN  IF j2 <= Len(t) /\ t[j2] = "}"
                        THEN ParseOk(JObj(<<>>), j2 + 1)
                        ELSE ParseMembers(t, j + 1, <<>>)
               [] t[j] = QT -> ParseString(t, j)
               [] t[j] \in LitUnits -> ParseOk(JLit(t[j]), j + 1)
               [] t[j] \in NumUnits -> ParseNumber(t, j)
               [] OTHER -> ParseFail

\* the elements of an array after its opening bracket, up to its closing one
ParseElems(t, i, acc) ==
    LET r == ParseValue(t, i)
    IN  IF ~r.ok THEN ParseFail
        ELSE LET j == SkipSpace(t, r.next)
             IN  IF j > Len(t) THEN ParseFail
                 ELSE IF t[j] = "," THEN ParseElems(t, j + 1, Append(acc, r.val))
                 ELSE IF t[j] = "]" THEN ParseOk(JArr(Append(acc, r.val)), j + 1)
                 ELSE ParseFail

\* the members of an object after its opening brace; a repeated key keeps its
\* last value
ParseMembers(t, i, acc) ==
    LET j == SkipSpace(t, i)
    IN  IF j > Len(t) \/ t[j] # QT THEN ParseFail
        ELSE LET key == ParseString(t, j)
                 c == SkipSpace(t, key.next)
             IN  IF ~key.ok \/ c > Len(t) \/ t[c] # ":" THEN ParseFail
                 ELSE LET r == ParseValue(t, c + 1)
                          e == SkipSpace(t, r.next)
                          members == (key.val.v :> r.val) @@ acc
                      IN  IF ~r.ok \/ e > Len(t) THEN ParseFail
                          ELSE IF t[e] = "," THEN ParseMembers(t, e + 1, members)
                          ELSE IF t[e] = "}" THEN ParseOk(JObj(members), e + 1)
                          ELSE ParseFail

\* json.loads(t): ok is FALSE where json.loads raises JSONDecodeError
JsonLoads(t) ==
    LET r == ParseValue(t, 1)
    IN  IF r.ok /\ SkipSpace(t, r.next) > Len(t)
        THEN [ok |-> TRUE, val |-> r.val]
        ELSE [ok |-> FALSE, val |-> JNull]

\* str.find(c) and str.rfind(c) as 0-based indexes, -1 when c is absent
Find(t, c) ==
    LET at == {i \in 1..Len(t) : t[i] = c}
    IN  IF at = {} THEN -1 ELSE (CHOOSE i \in at : \A j \in at : i <= j) - 1

RFind(t, c) ==
    LET at == {i \in 1..Len(t) : t[i] = c}
    IN  IF at = {} THEN -1 ELSE (CHOOSE i \in at : \A j \in at : j <= i) - 1

\* t[lo:hi] for 0-based lo and hi with 0 <= lo < hi
Slice(t, lo, hi) == SubSeq(t, lo + 1, Min(hi, Len(t)))

(***************************************************************************)
(* The chunker on every small document.                                    *)
(***************************************************************************)
DocAlphabet == {"a", "b", SP, NL}

\* all texts over the alphabet of length at most n
TextsUpTo(n) == UNION {[1..k -> DocAlphabet] : k \in 0..n}

IdleBatch ==
    /\ book_id = "b1"
    /\ callYields = FALSE
    /\ batchStart = 0
    /\ wstate = <<>>
    /\ slots = <<>>
    /\ delivered = <<>>
    /\ order = <<>>
    /\ db_chunks = <<>>
    /\ index = <<>>
    /\ inserted_chunks = -1

\* a fraction, for an average
Frac(n, d) == [num |-> n, den |-> d]

StudentIds == {"s1"}

\* no agent has run and the database holds no student
IdleQuiz ==
    /\ topic = ""
    /\ retrieved = <<>>
    /\ context = <<>>
    /\ raw = <<>>
    /\ questions = JNull
    /\ error = ""
    /\ auto_fix = FALSE
    /\ results = <<>>
    /\ calls = <<>>
    /\ students = {}
    /\ history = [s \in StudentIds |-> <<>>]
    /\ recorded = [s \in StudentIds |-> <<>>]
    /\ student_id = ""
    /\ student_responses = <<>>
    /\ hist = <<>>
    /\ avg_time = Frac(0, 1)
    /\ avg_hints = Frac(0, 1)
    /\ difficulty_hint = ""
    /\ books = <<>>
    /\ quizzes = <<>>
    /\ IdleUpload

InitChunker ==
    /\ pc = "start"
    /\ text \in TextsUpTo(MaxTextLen)
    /\ chunk_size \in 0..MaxChunkSize
    /\ chunks = <<>>
    /\ IdleBatch
    /\ IdleQuiz

\* if not text or not book_id: raise ValueError
RejectInput ==
    /\ pc = "start"
    /\ text = <<>>
    /\ pc' = "error"
    /\ UNCHANGED <<chunkVars, batchVars>>
    /\ UNCHANGED quizVars

\* lines 173-189 of run_curriculum_agent: the chunker, up to the batch loop
ChunkText ==
    /\ pc = "start"
    /\ text # <<>>
    /\ chunks' = Chunker(text, chunk_size)
    /\ wstate' = [w \in 1..Len(chunks') |-> "idle"]
    /\ pc' = "batch"
    /\ UNCHANGED <<text, chunk_size, book_id, callYields, batchStart, slots,
                   delivered, order, db_chunks, index, inserted_chunks>>
    /\ UNCHANGED quizVars

NextChunker == RejectInput \/ ChunkText

SpecChunker == InitChunker /\ [][NextChunker]_vars

(***************************************************************************)
(* Chunker properties.                                                     *)
(***************************************************************************)
ChunkTexts == [i \in 1..Len(chunks) |-> chunks[i].text]

\* the letters of a text, white space removed
Letters(s) == SelectSeq(s, LAMBDA c : ~IsSpace(c))

\* C1: the chunk positions are 0..n-1 in emission order, and the chunk texts
\* joined with the paragraph separator are the non-empty paragraphs of the
\* document, each once and in order: the joined text is the paragraphs joined,
\* splitting it again gives the paragraphs back, and no letter is lost, added
\* or moved.
C1_ChunkCoverage ==
    pc = "batch" =>
        /\ \A i \in 1..Len(chunks) : chunks[i].position = i - 1
        /\ Join(ChunkTexts, ParaSep) = Join(Paragraphs(text), ParaSep)
        /\ Paragraphs(Join(ChunkTexts, ParaSep)) = Paragraphs(text)
        /\ Letters(Join(ChunkTexts, ParaSep)) = Letters(text)

\* three paragraphs, the first two sharing a chunk and the third in its own
C1_Witness ==
    /\ pc = "batch"
    /\ Len(Paragraphs(text)) = 3
    /\ Len(chunks) = 2
    /\ Len(Paragraphs(chunks[1].text)) = 2
    /\ chunks[2].position = 1

\* the paragraphs of the chunks, chunk after chunk
RECURSIVE ParagraphsOf(_)
ParagraphsOf(texts) ==
    IF texts = <<>> THEN <<>>
    ELSE Paragraphs(Head(texts)) \o ParagraphsOf(Tail(texts))

\* C19: no paragraph is split across chunks: the paragraphs of the chunks, in
\* order, are the paragraphs of the document; a chunk of more than one
\* paragraph is no longer than chunk_size, separators included; a paragraph
\* longer than chunk_size is the only one of its chunk; two paragraphs each
\* longer than chunk_size give two chunks, at positions 0 and 1.
C19_WholeParagraphs ==
    pc = "batch" =>
        /\ ParagraphsOf(ChunkTexts) = Paragraphs(text)
        /\ \A i \in 1..Len(chunks) :
               \E ps \in {Paragraphs(chunks[i].text)} :
                   /\ Len(ps) > 1 => Len(chunks[i].text) <= chunk_size
                   /\ (\E k \in 1..Len(ps) : Len(ps[k]) > chunk_size) => Len(ps) = 1
                   /\ chunks[i].text = Join(ps, ParaSep)
        /\ \E ps \in {Paragraphs(text)} :
               (Len(ps) = 2 /\ Len(ps[1]) > chunk_size /\ Len(ps[2]) > chunk_size)
               => /\ Len(chunks) = 2
                  /\ chunks[1] = [position |-> 0, text |-> ps[1]]
                  /\ chunks[2] = [position |-> 1, text |-> ps[2]]

\* two paragraphs of two letters with a chunk size of one: two chunks
C19_Witness ==
    /\ pc = "batch"
    /\ chunk_size = 1
    /\ Len(chunks) = 2
    /\ \E ps \in {Paragraphs(text)} :
           Len(ps) = 2 /\ Len(ps[1]) = 2 /\ Len(ps[2]) = 2

(***************************************************************************)
(* process_single_chunk.                                                   *)
(***************************************************************************)
\* a text of n units u
Rep(u, n) == [i \in 1..n |-> u]

\* a string literal with the given units
Lit(units) == <<QT>> \o units \o <<QT>>

KSummary == <<"summary">>
KConcepts == <<"key_concepts">>
KKeywords == <<"keywords">>

EmptyStr == JStr(<<>>)

\* what the completion capability does with a call: it raises, or returns raw
Raises == [raises |-> TRUE, raw |-> <<>>]
Returns(reply) == [raises |-> FALSE, raw |-> reply]

SummaryObject ==
    <<"{">> \o Lit(KSummary) \o <<":">> \o Lit(<<"S">>) \o <<",">>
            \o Lit(KConcepts) \o <<":">> \o Lit(<<"K">>) \o <<",">>
            \o Lit(KKeywords) \o <<":">> \o Lit(<<"W">>) \o <<"}">>

\* the texts the completion capability returns for a summarization prompt
SummaryResponses ==
    { SummaryObject,                                       \* the object asked for
      <<"w", SP>> \o SummaryObject \o <<SP, "w">>,         \* the object inside prose
      Rep("w", LongLen),                                   \* prose, no braces
      <<"[">> \o Lit(<<"S">>) \o <<"]">>,                  \* JSON, not an object
      <<"null">>,                                          \* JSON null
      <<"{">> \o Lit(KKeywords) \o <<":">> \o Lit(<<"W">>) \o <<"}">>,
      <<"w", "{", "w", "}">>,                              \* braces around prose
      <<"{">> \o Lit(KSummary) \o <<":">> \o Lit(<<"S">>), \* cut before the brace
      <<"{", "}">>,                                        \* the empty object
      <<"{">> \o Lit(KSummary) \o <<":", "1", "}">>        \* a summary that is no string
    }

SummaryOutcomes == {Raises} \cup {Returns(r) : r \in SummaryResponses}

\* one outcome for each way out of process_single_chunk
BatchOutcomes ==
    { Raises,
      Returns(SummaryObject),
      Returns(Rep("w", LongLen)),
      Returns(<<"[">> \o Lit(<<"S">>) \o <<"]">>),
      Returns(<<"{">> \o Lit(KSummary) \o <<":", "1", "}">>) }

\* a document of one chunk is tried with every outcome, a longer one with
\* every combination of the outcomes of BatchOutcomes
OutcomesFor(n) == IF n = 1 THEN SummaryOutcomes ELSE BatchOutcomes

\* the text from the first open to the first close
SubstringParseFirst(reply, open, close) ==
    IF Find(reply, open) >= 0 /\ Find(reply, close) + 1 > Find(reply, open)
    THEN JsonLoads(Slice(reply, Find(reply, open), Find(reply, close) + 1))
    ELSE [ok |-> FALSE, val |-> JNull]

\* json.loads(raw[lo:hi]) for lo = raw.find(open) and hi = raw.rfind(close) + 1,
\* tried only if lo >= 0 and hi > lo
SubstringParse(reply, open, close) ==
    IF Find(reply, open) >= 0 /\ RFind(reply, close) + 1 > Find(reply, open)
    THEN JsonLoads(Slice(reply, Find(reply, open), RFind(reply, close) + 1))
    ELSE [ok |-> FALSE, val |-> JNull]

\* the value of the first parse that succeeds, None (JSON null) if neither does
FirstParsed(strict, sub) ==
    IF strict.ok THEN strict.val ELSE IF sub.ok THEN sub.val ELSE JNull

\* lines 257-268: json.loads(raw), else the text from the first '{' to the
\* last '}', else None
ParsedSummary(reply) == FirstParsed(JsonLoads(reply), SubstringParse(reply, "{", "}"))

ChunkRecord(chunk, book, summary, key_concepts, keywords) ==
    [id |-> <<book, chunk.position>>,
     text |-> chunk.text,
     metadata |-> [bookId |-> book, position |-> chunk.position,
                   summary |-> summary, key_concepts |-> key_concepts,
                   keywords |-> keywords]]

\* lines 270-292 for a parsed value: raised is TRUE where parsed.get raises
\* AttributeError, fallback is raw[:200]
SummarizedFrom(chunk, book, parsed, fallback) ==
    IF Truthy(parsed) /\ IsObj(parsed)
    THEN [raised |-> FALSE,
          value |-> ChunkRecord(chunk, book,
                                Get(parsed, KSummary, fallback),
                                Get(parsed, KConcepts, EmptyStr),
                                Get(parsed, KKeywords, EmptyStr))]
    ELSE [raised |-> Truthy(parsed),
          value |-> ChunkRecord(chunk, book, fallback, EmptyStr, EmptyStr)]

\* lines 254-292: the try block, given the text the completion call returned
SummarizedChunk(chunk, book, reply) ==
    SummarizedFrom(chunk, book, ParsedSummary(reply), JStr(Prefix(reply, SummaryLen)))

\* a minimal record that keeps the whole chunk text as its summary
DegradedChunkWhole(chunk, book) ==
    ChunkRecord(chunk, book, JStr(chunk.text), EmptyStr, EmptyStr)

\* lines 294-308: the chunk with minimal metadata
DegradedChunk(chunk, book) ==
    ChunkRecord(chunk, book, JStr(Prefix(chunk.text, SummaryLen)), EmptyStr, EmptyStr)

\* lines 253 and 294-308: every exception of the try block, from the completion
\* call or from the parsing, ends in the except branch, which returns
Except(raises, tried, degraded) ==
    IF raises \/ tried.raised THEN [raised |-> FALSE, value |-> degraded] ELSE tried

\* process_single_chunk, given what the completion call does
ProcessSingleChunk(chunk, book, out) ==
    Except(out.raises, SummarizedChunk(chunk, book, out.raw),
           DegradedChunk(chunk, book))

(***************************************************************************)
(* run_curriculum_agent: the batches.                                      *)
(***************************************************************************)
\* a group one chunk wider than batch_size
BatchWide == {w \in 1..Len(chunks) : batchStart < w /\ w <= batchStart + BatchSize + 1}

\* chunks[i:i + batch_size] as the 1-based indexes of its chunks
Batch == {w \in 1..Len(chunks) : batchStart < w /\ w <= batchStart + BatchSize}

\* results listed as the tasks finished
GatherByCompletion(batch, returned, finished) ==
    LET mine == SelectSeq(finished, LAMBDA w : w \in batch)
    IN  [i \in 1..Len(mine) |-> returned[mine[i]]]

\* asyncio.gather(*tasks): the results in the order of the awaitables
Gather(batch, returned, finished) ==
    LET mine == Ascending(batch)
    IN  [i \in 1..Len(mine) |-> returned[mine[i]]]

\* a short document of n paragraphs and a document with a long paragraph
ShortDoc(n) == Join([i \in 1..n |-> IF i % 2 = 1 THEN <<"a">> ELSE <<"b", SP, "a">>],
                    ParaSep)
LongDoc == Rep("a", LongLen) \o ParaSep \o <<"b">>

CurDocs == {<<>>, ShortDoc(CurParas), LongDoc}

InitCurriculum ==
    /\ pc = "start"
    /\ text \in CurDocs
    /\ chunk_size \in {1, AppChunkSize}
    /\ chunks = <<>>
    /\ book_id = "b1"
    /\ callYields \in BOOLEAN
    /\ batchStart = 0
    /\ wstate = <<>>
    /\ slots = <<>>
    /\ delivered = <<>>
    /\ order = <<>>
    /\ db_chunks = <<>>
    /\ index = <<>>
    /\ inserted_chunks = -1
    /\ IdleQuiz

\* line 197: the head of the loop over the batches; line 202 makes the tasks
StartBatch ==
    /\ pc = "batch"
    /\ IF batchStart < Len(chunks)
       THEN /\ wstate' = [w \in DOMAIN wstate |->
                            IF w \in Batch THEN "ready" ELSE wstate[w]]
            /\ pc' = "gather"
       ELSE /\ pc' = "store"
            /\ UNCHANGED wstate
    /\ UNCHANGED <<chunkVars, book_id, callYields, batchStart, slots, delivered,
                   order, db_chunks, index, inserted_chunks>>
    /\ UNCHANGED quizVars

\* a task starts running, in the order the tasks were made, and issues its
\* completion call (line 254); a call that does not suspend holds the event
\* loop until it returns
WorkerStart(w) ==
    /\ pc = "gather"
    /\ w \in Batch
    /\ wstate[w] = "ready"
    /\ \A v \in Batch : v < w => wstate[v] # "ready"
    /\ callYields \/ \A v \in Batch : wstate[v] # "calling"
    /\ wstate' = [wstate EXCEPT ![w] = "calling"]
    /\ UNCHANGED <<pc, chunkVars, book_id, callYields, batchStart, slots,
                   delivered, order, db_chunks, index, inserted_chunks>>
    /\ UNCHANGED quizVars

\* the completion call of a task ends and the task runs to its return
WorkerReturn(w, out) ==
    /\ pc = "gather"
    /\ w \in Batch
    /\ wstate[w] = "calling"
    /\ \E r \in {ProcessSingleChunk(chunks[w], book_id, out)} :
           /\ wstate' = [wstate EXCEPT ![w] = IF r.raised THEN "raised" ELSE "done"]
           /\ slots' = (w :> r.value) @@ slots
    /\ delivered' = (w :> out) @@ delivered
    /\ order' = Append(order, w)
    /\ UNCHANGED <<pc, chunkVars, book_id, callYields, batchStart, db_chunks,
                   index, inserted_chunks>>
    /\ UNCHANGED quizVars

\* lines 203-205: gather returns when every task has, or raises what a task
\* raised; the results are appended to db_chunks
GatherDone ==
    /\ pc = "gather"
    /\ \A w \in Batch : wstate[w] \in {"done", "raised"}
    /\ IF \E w \in Batch : wstate[w] = "raised"
       THEN /\ pc' = "error"
            /\ UNCHANGED <<db_chunks, batchStart>>
       ELSE /\ db_chunks' = db_chunks \o Gather(Batch, slots, order)
            /\ batchStart' = batchStart + BatchSize
            /\ pc' = "batch"
    /\ UNCHANGED <<chunkVars, book_id, callYields, wstate, slots, delivered,
                   order, index, inserted_chunks>>
    /\ UNCHANGED quizVars

\* add_chunks of chroma_service: nothing is added for an empty list
AddedTo(collection, new) ==
    IF new = <<>> THEN collection ELSE collection \o new

\* lines 214-221: summary[:100] + "..." of the first ten results raises
\* TypeError unless every summary is a string
SummaryRaises(stored) ==
    \E i \in 1..Min(SummaryShown, Len(stored)) :
        stored[i].metadata.summary.k # "str"

\* lines 207-227: the one index write, then the result
StoreChunks ==
    /\ pc = "store"
    /\ index' = AddedTo(index, db_chunks)
    /\ IF SummaryRaises(db_chunks)
       THEN pc' = "error" /\ UNCHANGED inserted_chunks
       ELSE pc' = "done" /\ inserted_chunks' = Len(db_chunks)
    /\ UNCHANGED <<chunkVars, book_id, callYields, batchStart, wstate, slots,
                   delivered, order, db_chunks>>
    /\ UNCHANGED quizVars

NextCurriculum ==
    \/ RejectInput
    \/ ChunkText
    \/ StartBatch
    \/ \E w \in DOMAIN wstate : WorkerStart(w)
    \/ \E w \in DOMAIN wstate, out \in OutcomesFor(Len(chunks)) : WorkerReturn(w, out)
    \/ GatherDone
    \/ StoreChunks

SpecCurriculum == InitCurriculum /\ [][NextCurriculum]_vars

(***************************************************************************)
(* Properties of the batches.                                              *)
(***************************************************************************)
\* C3: whatever the order in which the workers of a group complete, the
\* aggregated list has at index i the result of input chunk i: its text, its
\* position i - 1 and the very record worker i returned; this holds while the
\* list grows and of the list handed to the index.
C3_GatherOrder ==
    /\ Len(db_chunks) <= Len(chunks)
    /\ \A i \in 1..Len(db_chunks) :
           /\ db_chunks[i] = slots[i]
           /\ db_chunks[i].text = chunks[i].text
           /\ db_chunks[i].metadata.position = i - 1
    /\ pc \in {"store", "done"} => Len(db_chunks) = Len(chunks)
    /\ pc = "done" => index = db_chunks

\* two groups have been handed to the index, and in the first a later chunk's
\* worker completed before an earlier chunk's
C3_Witness ==
    /\ pc = "done"
    /\ Len(db_chunks) > BatchSize
    /\ \E i, j \in 1..Len(order) : i < j /\ order[i] > order[j] /\ order[i] <= BatchSize

\* the 0-based number of the group chunk w is in
GroupOf(w) == (w - 1) \div BatchSize

C18_CallsOverlap ==
    pc = "gather" =>
        \A v, w \in Batch :
            /\ wstate[v] = "calling"
            /\ wstate[w] = "ready"
            /\ \A u \in Batch : u < w => wstate[u] # "ready"
            => ENABLED WorkerStart(w)

\* C4: no worker ever raises, whatever its completion call does, so no batch
\* is aborted; a run that has chunks does not fail: it hands exactly one result
\* per chunk to the index and returns inserted_chunks = the number of chunks.
C4_DegradeNotAbort ==
    /\ \A w \in DOMAIN wstate : wstate[w] # "raised"
    /\ pc = "error" => text = <<>>
    /\ pc \in {"store", "done"} => Len(db_chunks) = Len(chunks)
    /\ pc = "done" => /\ inserted_chunks = Len(chunks)
                      /\ Len(index) = Len(chunks)
                      /\ \A i \in 1..Len(chunks) : index[i].id = <<book_id, i - 1>>

\* the result carries this summary and empty key concepts and keywords
Degraded(result, summary) ==
    /\ result.metadata.summary = JStr(summary)
    /\ result.metadata.key_concepts = EmptyStr
    /\ result.metadata.keywords = EmptyStr

\* neither the strict parse nor the brace-to-brace parse gives a JSON object
NoObject(strict, sub) ==
    /\ ~(strict.ok /\ IsObj(strict.val))
    /\ ~(sub.ok /\ IsObj(sub.val))

\* both parses reject the text as malformed, or the one that accepts it gives
\* a value Python takes for false
NothingParsed(strict, sub) ==
    IF strict.ok THEN ~Truthy(strict.val) ELSE sub.ok => ~Truthy(sub.val)

\* the strict parse gives a value that is true in Python and has no get
NotADict(strict, sub) ==
    IF strict.ok THEN Truthy(strict.val) /\ ~IsObj(strict.val)
    ELSE sub.ok /\ Truthy(sub.val) /\ ~IsObj(sub.val)

\* C5 as stated: a raising call, or a text neither parse turns into a JSON
\* object, leaves the first 200 characters of the chunk text as the summary.
C5_DegradedFromChunk ==
    \A w \in DOMAIN slots :
        (delivered[w].raises
            \/ NoObject(JsonLoads(delivered[w].raw),
                        SubstringParse(delivered[w].raw, "{", "}")))
        => Degraded(slots[w], Prefix(chunks[w].text, SummaryLen))

\* C5 amended: a raising call, or a text that parses to a value other than an
\* object that Python takes for true, leaves the first 200 characters of the
\* chunk text as the summary; a text both parses reject, or that parses to a
\* value Python takes for false, leaves the first 200 characters of that text;
\* key concepts and keywords are empty in both cases.
C5_DegradedSummary ==
    \A w \in DOMAIN slots :
        /\ (delivered[w].raises
               \/ NotADict(JsonLoads(delivered[w].raw),
                           SubstringParse(delivered[w].raw, "{", "}")))
           => Degraded(slots[w], Prefix(chunks[w].text, SummaryLen))
        /\ (~delivered[w].raises
               /\ NothingParsed(JsonLoads(delivered[w].raw),
                                SubstringParse(delivered[w].raw, "{", "}")))
           => Degraded(slots[w], Prefix(delivered[w].raw, SummaryLen))

\* the call for a chunk longer than 200 characters raised, and the call for
\* another chunk returned prose longer than 200 characters
C5_Witness ==
    /\ \E w \in DOMAIN slots :
           /\ delivered[w].raises
           /\ Len(chunks[w].text) > SummaryLen
           /\ Len(slots[w].metadata.summary.v) = SummaryLen
    /\ \E w \in DOMAIN slots :
           /\ ~delivered[w].raises
           /\ ~JsonLoads(delivered[w].raw).ok
           /\ Len(delivered[w].raw) > SummaryLen
           /\ slots[w].metadata.summary = JStr(Prefix(delivered[w].raw, SummaryLen))

(***************************************************************************)
(* Questions, and the texts the completion capability returns for a quiz.  *)
(***************************************************************************)
KQuestion == <<"question">>
KChoices == <<"choices">>
KCorrect == <<"correct">>
KExplanation == <<"explanation">>
KHint == <<"hint">>
KDifficulty == <<"difficulty">>
KValid == <<"valid">>
KReason == <<"reason">>

\* the order in which the members of an object are written
KeyOrder == <<KQuestion, KChoices, KCorrect, KExplanation, KValid, KReason>>

\* json.dumps(value): the JSON text of a value
RECURSIVE Dump(_)
Dump(val) ==
    CASE val.k = "str" -> Lit(val.v)
      [] val.k \in {"lit", "num"} -> val.v
      [] val.k = "arr" ->
            <<"[">> \o Join([i \in 1..Len(val.v) |-> Dump(val.v[i])], <<",", SP>>)
                    \o <<"]">>
      [] val.k = "obj" ->
            LET keys == SelectSeq(KeyOrder, LAMBDA key : key \in DOMAIN val.v)
            IN  <<"{">> \o Join([i \in 1..Len(keys) |->
                                    Lit(keys[i]) \o <<":", SP>> \o Dump(val.v[keys[i]])],
                                <<",", SP>>)
                        \o <<"}">>

\* str(value) inside an f-string
RECURSIVE PyStr(_, _)
PyStr(val, quoted) ==
    CASE val.k = "str" -> IF quoted THEN <<"'">> \o val.v \o <<"'">> ELSE val.v
      [] val.k = "num" -> val.v
      [] val.k = "lit" -> IF val.v = <<"null">> THEN <<"None">>
                          ELSE IF val.v = <<"true">> THEN <<"True">> ELSE <<"False">>
      [] val.k = "arr" ->
            <<"[">> \o Join([i \in 1..Len(val.v) |-> PyStr(val.v[i], TRUE)], <<",", SP>>)
                    \o <<"]">>
      [] val.k = "obj" ->
            LET keys == SelectSeq(KeyOrder, LAMBDA key : key \in DOMAIN val.v)
            IN  <<"{">> \o Join([i \in 1..Len(keys) |->
                                    <<"'">> \o keys[i] \o <<"'", ":", SP>>
                                            \o PyStr(val.v[keys[i]], TRUE)],
                                <<",", SP>>)
                        \o <<"}">>

Letter(c) == JStr(<<c>>)

\* a question as the prompt asks for it
GoodQuestion ==
    JObj((KQuestion :> Letter("Q"))
         @@ (KChoices :> JArr(<<Letter("a"), Letter("b"), Letter("c"), Letter("d")>>))
         @@ (KCorrect :> Letter("A"))
         @@ (KExplanation :> Letter("E")))

\* three choices, a label outside A-D, no explanation
ShortQuestion ==
    JObj((KQuestion :> Letter("Q"))
         @@ (KChoices :> JArr(<<Letter("a"), Letter("b"), Letter("c")>>))
         @@ (KCorrect :> Letter("E")))

\* choices that are a string, an empty explanation
OddQuestion ==
    JObj((KQuestion :> Letter("Q"))
         @@ (KChoices :> JStr(<<"a", "b", "c", "d">>))
         @@ (KCorrect :> Letter("B"))
         @@ (KExplanation :> EmptyStr))

\* the question text alone
BareQuestion == JObj(KQuestion :> Letter("Q"))

SampleQuestions == <<GoodQuestion, ShortQuestion, OddQuestion, BareQuestion>>

\* the arrays of at most n sample questions, the questions of an array taken
\* in the order of the samples
QuestionArrays(n) ==
    {JArr([i \in DOMAIN pick |-> SampleQuestions[pick[i]]]) :
        pick \in UNION {{f \in [1..m -> 1..Len(SampleQuestions)] :
                           \A i \in 1..m - 1 : f[i] <= f[i + 1]} : m \in 0..n}}

\* a text with prose before and after it
InProse(t) == <<"w", SP>> \o t \o <<SP, "w">>

\* texts that are no array of question objects
OtherQuizResponses ==
    { <<"w", SP, "w">>,                    \* prose without brackets
      <<"w", "[", "w", "]">>,              \* brackets around prose
      <<"]", "w", "[">>,                   \* the last ']' before the first '['
      Dump(GoodQuestion),                  \* one question object, no array
      InProse(Dump(GoodQuestion)),         \* the same in prose: its choices are an array
      <<"[", "1", "]">>,                   \* an array of numbers
      <<"null">>,
      <<QT, QT>>,                          \* the empty string
      <<"{", "}">> }

\* the texts the completion capability returns for a quiz prompt
QuizResponses ==
    {Dump(arr) : arr \in QuestionArrays(MaxQuestions)}
        \cup {InProse(Dump(arr)) : arr \in QuestionArrays(MaxQuestions)}
        \cup OtherQuizResponses

QuizOutcomes == {Raises} \cup {Returns(r) : r \in QuizResponses}

(***************************************************************************)
(* The parsing and the repair of a question list.                          *)
(***************************************************************************)
Failed(kind) == [error |-> kind, val |-> JNull]
Passed(val) == [error |-> "", val |-> val]

\* reply.find(open) >= 0 and reply.rfind(close) + 1 > reply.find(open)
HasSpan(reply, open, close) ==
    Find(reply, open) >= 0 /\ RFind(reply, close) + 1 > Find(reply, open)

\* agents.py 411-419 and 596-604, given the two parses: json.loads(raw), else
\* json.loads of the text from the first '[' to the last ']', whose
\* JSONDecodeError is not caught, else ValueError
QuestionsFrom(strict, sub, span) ==
    IF strict.ok THEN Passed(strict.val)
    ELSE IF ~span THEN Failed("ValueError")
    ELSE IF sub.ok THEN Passed(sub.val)
    ELSE Failed("JSONDecodeError")

ParsedQuestions(reply) ==
    QuestionsFrom(JsonLoads(reply), SubstringParse(reply, "[", "]"),
                  HasSpan(reply, "[", "]"))

\* f"Based on the context, {q.get('correct', 'A')} is the correct answer."
DefaultExplanation(q) ==
    JStr(<<"Based on the context, ">> \o PyStr(Get(q, KCorrect, Letter("A")), FALSE)
                                      \o <<" is the correct answer.">>)

\* an explanation only where the key is missing
WithExplanationMissing(q) ==
    IF KExplanation \notin DOMAIN q.v
    THEN JObj((KExplanation :> DefaultExplanation(q)) @@ q.v)
    ELSE q

\* lines 423-424 and 609-610
WithExplanation(q) ==
    IF KExplanation \notin DOMAIN q.v \/ ~Truthy(q.v[KExplanation])
    THEN JObj((KExplanation :> DefaultExplanation(q)) @@ q.v)
    ELSE q

PlaceholderChoices ==
    JArr(<<JStr(<<"Option A">>), JStr(<<"Option B">>), JStr(<<"Option C">>),
           JStr(<<"Option D">>)>>)

\* lines 613-614
WithChoices(q) ==
    IF KChoices \notin DOMAIN q.v \/ ~IsArr(q.v[KChoices])
    THEN JObj((KChoices :> PlaceholderChoices) @@ q.v)
    ELSE q

\* what the first item of "for q in questions" that is no dict raises in the
\* body of the loop: 'explanation' not in q is a TypeError for a number, true,
\* false or None, and q.get is an AttributeError for a string or a list
ItemError(item) ==
    CASE item.k \in {"num", "lit"} -> "TypeError"
      [] item.k = "str" -> IF item.v = KExplanation THEN "TypeError" ELSE "AttributeError"
      [] item.k = "arr" -> "AttributeError"
      [] OTHER -> ""

\* the first of the items that raises
FirstError(items) ==
    IF \A i \in 1..Len(items) : ItemError(items[i]) = "" THEN ""
    ELSE ItemError(items[CHOOSE i \in 1..Len(items) :
                            /\ ItemError(items[i]) # ""
                            /\ \A j \in 1..i - 1 : ItemError(items[j]) = ""])

\* the exception of the loop over questions, "" if it ends: a list gives its
\* elements, a dict its keys, a string its characters, and nothing else can be
\* iterated
LoopError(val) ==
    CASE val.k = "arr" -> FirstError(val.v)
      [] val.k = "obj" ->
            FirstError([i \in 1..Len(SelectSeq(KeyOrder, LAMBDA key : key \in DOMAIN val.v))
                           |-> JStr(SelectSeq(KeyOrder, LAMBDA key : key \in DOMAIN val.v)[i])])
      [] val.k = "str" -> IF val.v = <<>> THEN "" ELSE "AttributeError"
      [] OTHER -> "TypeError"

\* lines 421-424 of run_quiz_generator_agent
GeneratorRepair(parsed) ==
    IF parsed.error # "" THEN parsed
    ELSE IF LoopError(parsed.val) # "" THEN Failed(LoopError(parsed.val))
    ELSE IF IsArr(parsed.val)
         THEN Passed(JArr([i \in 1..Len(parsed.val.v) |->
                              WithExplanation(parsed.val.v[i])]))
         ELSE parsed

\* lines 606-614 of run_adaptive_agent
AdaptiveRepair(parsed) ==
    IF parsed.error # "" THEN parsed
    ELSE IF LoopError(parsed.val) # "" THEN Failed(LoopError(parsed.val))
    ELSE IF IsArr(parsed.val)
         THEN Passed(JArr([i \in 1..Len(parsed.val.v) |->
                              WithChoices(WithExplanation(parsed.val.v[i]))]))
         ELSE parsed

\* an agent's way out: the completion call raised, the parsing or the repair
\* raised, building the result raised, or the questions are returned
Outcome(raises, repaired, resultRaises) ==
    IF raises THEN Failed("OpenAIError")
    ELSE IF repaired.error = "" /\ resultRaises THEN Failed("TypeError")
    ELSE repaired

(***************************************************************************)
(* The vector index as the agents query it.                                *)
(***************************************************************************)
IndexedChunk(book, position, body) ==
    ChunkRecord([position |-> position, text |-> body], book,
                Letter("S"), Letter("K"), Letter("W"))

\* two chunks of book b1 and one of book b2, as run_curriculum_agent stores them
SampleIndex ==
    <<IndexedChunk("b1", 0, <<"a">>), IndexedChunk("b1", 1, <<"b">>),
      IndexedChunk("b2", 0, <<"a">>)>>

\* the chunks in one of the orders the index ranks them in, nearest first; a
\* distance is in tenths
Ranked(collection, reversed) ==
    [i \in 1..Len(collection) |->
        [doc |-> collection[IF reversed THEN Len(collection) + 1 - i ELSE i].text,
         meta |-> collection[IF reversed THEN Len(collection) + 1 - i ELSE i].metadata,
         dist |-> i - 1]]

\* query of chroma_service: at most n results, none when the query fails
QueryResults(collection, n) ==
    {<<>>} \cup {Prefix(Ranked(collection, reversed), n) : reversed \in BOOLEAN}

\* the results of every book
RelevantChunksAll(found, book) == found

\* lines 359-368: the results of this book, all results when it has none
RelevantChunks(found, book) ==
    IF SelectSeq(found, LAMBDA e : e.meta.bookId = book) # <<>>
    THEN SelectSeq(found, LAMBDA e : e.meta.bookId = book)
    ELSE found

\* lines 372-385: the context parts of the generator
GeneratorContext(relevant) ==
    [i \in 1..Len(relevant) |->
        [chunk |-> i, position |-> relevant[i].meta.position,
         relevance |-> 10 - relevant[i].dist, doc |-> relevant[i].doc]]

\* get_relevant_context: the context parts of the validator and the adaptive agent
RelevantContext(found) ==
    [i \in 1..Len(found) |->
        [chunk |-> i, bookId |-> found[i].meta.bookId,
         pos |-> found[i].meta.position, doc |-> found[i].doc]]

\* a relevance score in tenths, and None
Scored(tenths) == [present |-> TRUE, tenths |-> tenths]
NoScore == [present |-> FALSE, tenths |-> 0]

\* lines 436-443: retrieved_chunks_info, with 1 - dist if dist else None; a
\* distance of 0 is one Python takes for false
RetrievedChunksInfo(relevant) ==
    [i \in 1..Len(relevant) |->
        [position |-> relevant[i].meta.position,
         relevance_score |-> IF relevant[i].dist # 0
                             THEN Scored(10 - relevant[i].dist) ELSE NoScore]]

\* lines 436-443: meta.get('summary', '')[:100] + "..." raises TypeError unless
\* the summary is a string
InfoRaises(relevant) ==
    \E i \in 1..Len(relevant) : relevant[i].meta.summary.k # "str"

(***************************************************************************)
(* run_quiz_generator_agent.                                               *)
(***************************************************************************)
\* lines 344-385: the arguments are checked, the index is queried and the
\* context is built
GeneratorQuery ==
    /\ pc = "generator"
    /\ IF topic = "" \/ book_id = ""
       THEN /\ error' = "ValueError"
            /\ pc' = "error"
            /\ UNCHANGED <<retrieved, context>>
       ELSE /\ \E found \in QueryResults(index, GeneratorWidth) :
                   /\ retrieved' = found
                   /\ context' = GeneratorContext(RelevantChunks(found, book_id))
            /\ pc' = "generator_call"
            /\ UNCHANGED error
    /\ UNCHANGED <<appVars, chunkVars, batchVars, topic, raw, questions, valVars, storeVars,
                   adaptVars>>

\* lines 408-451: the completion call, the parsing, the repair and the result
GeneratorAnswer(out) ==
    /\ pc = "generator_call"
    /\ raw' = out.raw
    /\ \E r \in {Outcome(out.raises, GeneratorRepair(ParsedQuestions(out.raw)),
                         InfoRaises(RelevantChunks(retrieved, book_id)))} :
           /\ error' = r.error
           /\ questions' = r.val
           /\ pc' = IF r.error = "" THEN "generated" ELSE "error"
    /\ UNCHANGED <<appVars, chunkVars, batchVars, topic, retrieved, context, valVars,
                   storeVars, adaptVars>>

(***************************************************************************)
(* run_quiz_validator_agent.                                               *)
(***************************************************************************)
\* the questions "for q in questions" goes through
QuestionCount(val) == IF IsArr(val) THEN Len(val.v) ELSE 0

\* a unit that is no word character for a regular expression
NonWord == {SP, NL, QT, "[", "]", "{", "}", ",", ":", ".", "'"}

\* str.lower of the units that spell true or false
Lower(u) ==
    CASE u \in {"true", "True", "TRUE"} -> "true"
      [] u \in {"false", "False", "FALSE"} -> "false"
      [] OTHER -> u

\* re.search(r'\bword\b', reply, re.I)
HasWord(reply, word) ==
    \E i \in 1..Len(reply) :
        /\ Lower(reply[i]) = word
        /\ i = 1 \/ reply[i - 1] \in NonWord
        /\ i = Len(reply) \/ reply[i + 1] \in NonWord

\* a guess that takes the word true alone for a valid question
HeuristicValidationAnyTrue(reply) ==
    JObj((KValid :> JLit(IF HasWord(reply, "true") THEN "true" ELSE "false"))
         @@ (KReason :> JStr(Prefix(reply, ReasonLen))))

\* lines 487-488: the validation guessed from a reply that is not JSON
HeuristicValidation(reply) ==
    JObj((KValid :> JLit(IF HasWord(reply, "true") /\ ~HasWord(reply, "false")
                         THEN "true" ELSE "false"))
         @@ (KReason :> JStr(Prefix(reply, ReasonLen))))

\* lines 482-488
ValidationFrom(strict, guessed) == IF strict.ok THEN strict.val ELSE guessed

Validation(reply) == ValidationFrom(JsonLoads(reply), HeuristicValidation(reply))

\* validation['valid'] of line 491: TypeError unless the validation is a dict,
\* KeyError unless it has the key
Subscripted(validation) ==
    IF ~IsObj(validation) THEN Failed("TypeError")
    ELSE IF KValid \notin DOMAIN validation.v THEN Failed("KeyError")
    ELSE Passed(validation)

ValidationOutcome(raises, validation) ==
    IF raises THEN Failed("OpenAIError") ELSE Subscripted(validation)

\* a repair for every question, whatever the flag
NeedsFixAlways(validation, fix) == ~Truthy(validation.v[KValid])

\* line 491: not validation['valid'] and auto_fix
NeedsFix(validation, fix) == ~Truthy(validation.v[KValid]) /\ fix

\* an empty object, not None, for a repair reply that is no JSON
FixedFromEmpty(strict) == IF strict.ok THEN strict.val ELSE JObj(<<>>)

\* lines 505-508
FixedFrom(strict) == IF strict.ok THEN strict.val ELSE JNull

\* where the loop goes after question i: on to the next, or to the counts
AfterQuestion(i) == IF i = QuestionCount(questions) THEN "validated" ELSE "validate"

\* a loop that goes on to the next question whatever the validation says
AfterValidationOn(validation, i) == AfterQuestion(i)

\* line 491: to the repair of question i, or on
AfterValidation(validation, i) ==
    IF NeedsFix(validation, auto_fix) THEN "fix" ELSE AfterQuestion(i)

ValidObject(flag) == JObj((KValid :> JLit(flag)) @@ (KReason :> Letter("R")))

\* the texts the completion capability returns for a validation prompt
ValidationResponses ==
    { Dump(ValidObject("true")),
      Dump(ValidObject("false")),
      <<"True">>,                          \* no JSON: the word true
      <<"w", SP, "true", SP, "false">>,    \* no JSON: both words
      <<"x", "true">>,                     \* no JSON: true inside a word
      <<"true">>,                          \* JSON, but no object
      Dump(JObj(KReason :> Letter("R"))) } \* an object without 'valid'

ValidationOutcomes == {Raises} \cup {Returns(r) : r \in ValidationResponses}

\* the texts the completion capability returns for a repair prompt
FixResponses ==
    {Dump(GoodQuestion), Dump(ShortQuestion), InProse(Dump(GoodQuestion))}

FixOutcomes == {Raises} \cup {Returns(r) : r \in FixResponses}

\* line 464, and the start of the loop: generate_quiz passes the questions of
\* the generator
ValidatorQuery ==
    /\ pc = "generated"
    /\ \E found \in QueryResults(index, ValidatorWidth) :
           /\ retrieved' = found
           /\ context' = RelevantContext(found)
    /\ results' = <<>>
    /\ calls' = [i \in 1..QuestionCount(questions) |-> [validate |-> 0, fix |-> 0, open |-> 0,
                                                     raw |-> <<>>, raw_fix |-> <<>>]]
    /\ pc' = IF QuestionCount(questions) = 0 THEN "validated" ELSE "validate"
    /\ UNCHANGED <<appVars, chunkVars, batchVars, topic, raw, questions, error, auto_fix,
                   storeVars, adaptVars>>

\* lines 468-480: the prompt of the next question, and its validation call
\* issued
ValidateStart ==
    /\ pc = "validate"
    /\ calls' = [calls EXCEPT ![Len(results) + 1].validate = @ + 1,
                              ![Len(results) + 1].open = @ + 1]
    /\ pc' = "validating"
    /\ UNCHANGED <<appVars, chunkVars, batchVars, genVars, auto_fix, results,
                   storeVars, adaptVars>>

\* lines 480-491 and 510-514: the validation call returns or raises
ValidateCall(out) ==
    /\ pc = "validating"
    /\ calls' = [calls EXCEPT ![Len(results) + 1].open = @ - 1,
                              ![Len(results) + 1].raw = out.raw]
    /\ \E v \in {ValidationOutcome(out.raises, Validation(out.raw))} :
           IF v.error # ""
           THEN /\ error' = v.error
                /\ pc' = "error"
                /\ UNCHANGED results
           ELSE /\ results' = Append(results,
                                     [question |-> questions.v[Len(results) + 1],
                                      validation |-> v.val,
                                      fixed_question |-> JNull])
                /\ pc' = AfterValidation(v.val, Len(results) + 1)
                /\ UNCHANGED error
    /\ UNCHANGED <<appVars, chunkVars, batchVars, topic, retrieved, context, raw, questions,
                   auto_fix, storeVars, adaptVars>>

\* lines 492-504: the repair prompt of the question just found invalid, and
\* its call issued
FixStart ==
    /\ pc = "fix"
    /\ calls' = [calls EXCEPT ![Len(results)].fix = @ + 1,
                              ![Len(results)].open = @ + 1]
    /\ pc' = "fixing"
    /\ UNCHANGED <<appVars, chunkVars, batchVars, genVars, auto_fix, results,
                   storeVars, adaptVars>>

\* lines 504-514: the repair call returns or raises
FixCall(out) ==
    /\ pc = "fixing"
    /\ calls' = [calls EXCEPT ![Len(results)].open = @ - 1,
                              ![Len(results)].raw_fix = out.raw]
    /\ IF out.raises
       THEN /\ error' = "OpenAIError"
            /\ pc' = "error"
            /\ UNCHANGED results
       ELSE /\ results' = [results EXCEPT ![Len(results)].fixed_question =
                                              FixedFrom(JsonLoads(out.raw))]
            /\ pc' = AfterQuestion(Len(results))
            /\ UNCHANGED error
    /\ UNCHANGED <<appVars, chunkVars, batchVars, topic, retrieved, context, raw, questions,
                   auto_fix, storeVars, adaptVars>>

(***************************************************************************)
(* The students, generate_adaptive_quiz and run_adaptive_agent.            *)
(***************************************************************************)
FastResponse == [is_correct |-> TRUE, time_ms |-> 10000, hints_used |-> 0]
SlowResponse == [is_correct |-> FALSE, time_ms |-> 40000, hints_used |-> 3]

\* record_quiz_attempt, lines 541-565: what an attempt keeps of its responses
AttemptData(responses) ==
    [total |-> Len(responses),
     trueCount |-> Cardinality({i \in 1..Len(responses) : responses[i].is_correct}),
     falseCount |-> Cardinality({i \in 1..Len(responses) : ~responses[i].is_correct})]

\* the histories record_quiz_attempt leaves for attempts of one response each
StoredHistory(log) == [i \in 1..Len(log) |-> AttemptData(<<log[i]>>)]

\* the responses of a student: none, or up to MaxHistory attempts
ResponseLogs == UNION {[1..m -> {FastResponse, SlowResponse}] : m \in 0..MaxHistory}

\* get_student_responses: the attempts of the history, each with is_correct
\* and with time_ms = 0 and hints_used = 0
GetStudentResponses(attempts) ==
    [i \in 1..Len(attempts) |->
        [total |-> attempts[i].total,
         trueCount |-> attempts[i].trueCount,
         falseCount |-> attempts[i].falseCount,
         is_correct |-> attempts[i].trueCount > attempts[i].falseCount,
         time_ms |-> 0,
         hints_used |-> 0]]

RECURSIVE SumOf(_)
SumOf(numbers) == IF numbers = <<>> THEN 0 ELSE Head(numbers) + SumOf(Tail(numbers))

\* the means without the defaults: sums over a count that may be zero
MetricsNoDefault(responses) ==
    [avg_time |-> Frac(SumOf([i \in 1..Len(responses) |-> responses[i].time_ms]),
                       Len(responses)),
     avg_hints |-> Frac(SumOf([i \in 1..Len(responses) |-> responses[i].hints_used]),
                        Len(responses))]

\* lines 545-560: the means of time_ms and hints_used, 20000 and 0.5 without
\* responses
Metrics(responses) ==
    IF responses # <<>>
    THEN [avg_time |-> Frac(SumOf([i \in 1..Len(responses) |-> responses[i].time_ms]),
                            Len(responses)),
          avg_hints |-> Frac(SumOf([i \in 1..Len(responses) |-> responses[i].hints_used]),
                             Len(responses))]
    ELSE [avg_time |-> Frac(DefaultTime, 1), avg_hints |-> Frac(1, 2)]

\* a < b for fractions with positive denominators
Below(a, b) == a.num * b.den < b.num * a.den

AtMost(a, b) == a.num * b.den <= b.num * a.den

\* a policy that takes its boundary values for fast
DirectiveInclusive(time, hints) ==
    IF AtMost(time, Frac(FastTime, 1)) /\ AtMost(hints, Frac(1, 2))
    THEN "increase difficulty"
    ELSE IF Below(Frac(SlowTime, 1), time) \/ Below(Frac(1, 1), hints)
    THEN "decrease difficulty"
    ELSE "maintain difficulty"

\* lines 563-568
Directive(time, hints) ==
    IF Below(time, Frac(FastTime, 1)) /\ Below(hints, Frac(1, 2))
    THEN "increase difficulty"
    ELSE IF Below(Frac(SlowTime, 1), time) \/ Below(Frac(1, 1), hints)
    THEN "decrease difficulty"
    ELSE "maintain difficulty"

\* app.py 432-461: the student is looked up and created if unknown; every
\* response of the request goes to create_student_response, which stores nothing
AdaptiveEndpoint ==
    /\ pc = "adaptive_endpoint"
    /\ students' = students \cup {student_id}
    /\ recorded' = [recorded EXCEPT ![student_id] = @ \o student_responses]
    /\ pc' = "adaptive"
    /\ UNCHANGED <<appVars, chunkVars, batchVars, genVars, valVars, history, adaptVars>>

\* lines 543-552: the student and the history
FindStudent ==
    /\ pc = "adaptive"
    /\ hist' = IF student_id \in students
               THEN GetStudentResponses(history[student_id])
               ELSE <<>>
    /\ pc' = "assess"
    /\ UNCHANGED <<appVars, chunkVars, batchVars, genVars, valVars, storeVars, student_id,
                   student_responses, avg_time, avg_hints, difficulty_hint>>

\* lines 545-568: the averages and the directive
AssessPerformance ==
    /\ pc = "assess"
    /\ \E m \in {Metrics(hist)} :
           /\ avg_time' = m.avg_time
           /\ avg_hints' = m.avg_hints
           /\ difficulty_hint' = Directive(m.avg_time, m.avg_hints)
    /\ pc' = "adaptive_context"
    /\ UNCHANGED <<appVars, chunkVars, batchVars, genVars, valVars, storeVars, student_id,
                   student_responses, hist>>

\* line 570
AdaptiveQuery ==
    /\ pc = "adaptive_context"
    /\ \E found \in QueryResults(index, AdaptiveWidth) :
           /\ retrieved' = found
           /\ context' = RelevantContext(found)
    /\ pc' = "adaptive_call"
    /\ UNCHANGED <<appVars, chunkVars, batchVars, topic, raw, questions, error, valVars,
                   storeVars, adaptVars>>

\* lines 594-636: the completion call, the parsing, the repair and the result
AdaptiveAnswer(out) ==
    /\ pc = "adaptive_call"
    /\ raw' = out.raw
    /\ \E r \in {Outcome(out.raises, AdaptiveRepair(ParsedQuestions(out.raw)), FALSE)} :
           /\ error' = r.error
           /\ questions' = r.val
           /\ pc' = IF r.error = "" THEN "adapted" ELSE "error"
    /\ UNCHANGED <<appVars, chunkVars, batchVars, topic, retrieved, context, valVars,
                   storeVars, adaptVars>>

(***************************************************************************)
(* The quiz agents on one request each.                                    *)
(***************************************************************************)
\* the requests to the generator: topic, book, auto_fix and index
GeneratorCases ==
    { <<"t", "b1", TRUE, SampleIndex>>,
      <<"t", "b3", FALSE, SampleIndex>>,    \* a book without chunks in the index
      <<"t", "b1", FALSE, <<>> >>,          \* an empty index
      <<"", "b1", TRUE, SampleIndex>>,      \* no topic
      <<"t", "", TRUE, SampleIndex>> }      \* no book

IdleCurriculum ==
    /\ text = <<>>
    /\ chunk_size = AppChunkSize
    /\ chunks = <<>>
    /\ callYields = FALSE
    /\ batchStart = 0
    /\ wstate = <<>>
    /\ slots = <<>>
    /\ delivered = <<>>
    /\ order = <<>>
    /\ db_chunks = <<>>
    /\ inserted_chunks = -1

IdleAgents ==
    /\ retrieved = <<>>
    /\ context = <<>>
    /\ raw = <<>>
    /\ questions = JNull
    /\ error = ""
    /\ results = <<>>
    /\ calls = <<>>
    /\ hist = <<>>
    /\ avg_time = Frac(0, 1)
    /\ avg_hints = Frac(0, 1)
    /\ difficulty_hint = ""
    /\ books = <<>>
    /\ quizzes = <<>>
    /\ IdleUpload

InitGenerator ==
    /\ pc = "generator"
    /\ \E c \in GeneratorCases :
           /\ topic = c[1]
           /\ book_id = c[2]
           /\ auto_fix = c[3]
           /\ index = c[4]
    /\ students = {}
    /\ history = [s \in StudentIds |-> <<>>]
    /\ recorded = [s \in StudentIds |-> <<>>]
    /\ student_id = ""
    /\ student_responses = <<>>

\* a request to the adaptive endpoint, or a call of the agent alone, for a
\* student who may be unknown, known without attempts, or known with attempts
InitAdaptive ==
    /\ pc \in {"adaptive_endpoint", "adaptive"}
    /\ topic = "t"
    /\ book_id = "b1"
    /\ auto_fix = FALSE
    /\ index \in {<<>>, SampleIndex}
    /\ student_id = "s1"
    /\ \E log \in ResponseLogs :
           /\ recorded = [s \in StudentIds |-> log]
           /\ history = [s \in StudentIds |-> StoredHistory(log)]
           /\ students \in IF log = <<>> THEN {{}, StudentIds} ELSE {StudentIds}
    /\ student_responses \in IF pc = "adaptive_endpoint"
                             THEN {<<>>, <<SlowResponse>>}
                             ELSE {<<>>}

InitQuiz ==
    /\ IdleCurriculum
    /\ IdleAgents
    /\ InitGenerator \/ InitAdaptive

NextQuiz ==
    \/ GeneratorQuery
    \/ \E out \in QuizOutcomes : GeneratorAnswer(out)
    \/ ValidatorQuery
    \/ ValidateStart
    \/ \E out \in ValidationOutcomes : ValidateCall(out)
    \/ FixStart
    \/ \E out \in FixOutcomes : FixCall(out)
    \/ AdaptiveEndpoint
    \/ FindStudent
    \/ AssessPerformance
    \/ AdaptiveQuery
    \/ \E out \in QuizOutcomes : AdaptiveAnswer(out)

SpecQuiz == InitQuiz /\ [][NextQuiz]_vars

(***************************************************************************)
(* The difficulty policy on every small history.                           *)
(***************************************************************************)
PolicyTimes == {0, 14999, 15000, 15001, 30000, 30001}
PolicyHints == {0, 1, 2}

PolicyHistories ==
    UNION {[1..m -> [time_ms : PolicyTimes, hints_used : PolicyHints]] :
              m \in 0..MaxHistory}

InitPolicy ==
    /\ pc = "assess"
    /\ IdleCurriculum
    /\ book_id = "b1"
    /\ index = <<>>
    /\ topic = "t"
    /\ retrieved = <<>>
    /\ context = <<>>
    /\ raw = <<>>
    /\ questions = JNull
    /\ error = ""
    /\ auto_fix = FALSE
    /\ results = <<>>
    /\ calls = <<>>
    /\ students = StudentIds
    /\ history = [s \in StudentIds |-> <<>>]
    /\ recorded = [s \in StudentIds |-> <<>>]
    /\ student_id = "s1"
    /\ student_responses = <<>>
    /\ hist \in PolicyHistories
    /\ avg_time = Frac(0, 1)
    /\ avg_hints = Frac(0, 1)
    /\ difficulty_hint = ""
    /\ books = <<>>
    /\ quizzes = <<>>
    /\ IdleUpload

NextPolicy == AssessPerformance

SpecPolicy == InitPolicy /\ [][NextPolicy]_vars

(***************************************************************************)
(* Properties of the quiz agents.                                          *)
(***************************************************************************)
Labels == {Letter("A"), Letter("B"), Letter("C"), Letter("D")}

\* a question with exactly four choices and a correct label among A-D
Closed(q) ==
    /\ KChoices \in DOMAIN q.v
    /\ IsArr(q.v[KChoices])
    /\ Len(q.v[KChoices].v) = 4
    /\ KCorrect \in DOMAIN q.v
    /\ q.v[KCorrect] \in Labels

\* C2: every question of a list that the generator or the adaptive agent
\* returns has exactly four choices and a correct label among A, B, C and D.
C2_SchemaClosure ==
    pc \in {"generated", "adapted"} /\ IsArr(questions)
        => \A i \in 1..Len(questions.v) : Closed(questions.v[i])

C20_SequentialValidation ==
    /\ \A i \in 1..Len(calls) : calls[i].open \in {0, 1}
    /\ Cardinality({i \in 1..Len(calls) : calls[i].open > 0}) <= 1
    /\ \A i \in 2..Len(calls) :
           calls[i].validate > 0 =>
               /\ i - 1 <= Len(results)
               /\ calls[i - 1].validate = 1
               /\ calls[i - 1].open = 0
               /\ (auto_fix /\ ~Truthy(results[i - 1].validation.v[KValid]))
                  => calls[i - 1].fix = 1

\* the validation call of the second question is outstanding, after the
\* repair of the first
C20_Witness ==
    /\ pc = "validating"
    /\ Len(calls) >= 2
    /\ calls[2].open = 1
    /\ calls[1].fix = 1
    /\ results[1].fixed_question # JNull

\* the repair call of question i returned a text that is no JSON
RepairUnparsed(i) ==
    calls[i].raw_fix # <<>> /\ ~JsonLoads(calls[i].raw_fix).ok

\* C21: when the repair call of a question returns text that is no JSON, the
\* outcome of the question has no fixed question and keeps the question and
\* its validation, one repair call has been made for the question and none is
\* outstanding, and the loop has gone on: until the validation call of the
\* next question is made it stands at the next question, or at the end after
\* the last.
C21_FailedRepairKept ==
    \A i \in 1..Len(calls) :
        RepairUnparsed(i) =>
            /\ i <= Len(results)
            /\ results[i].fixed_question = JNull
            /\ results[i].question = questions.v[i]
            /\ results[i].validation = Validation(calls[i].raw)
            /\ ~Truthy(results[i].validation.v[KValid])
            /\ auto_fix
            /\ calls[i].fix = 1
            /\ calls[i].open = 0
            /\ (i = Len(calls) \/ calls[i + 1].validate = 0) => pc = AfterQuestion(i)

\* the repair of the first question returned text that is no JSON, and the
\* validation call of the second question has been made
C21_Witness ==
    /\ Len(calls) >= 2
    /\ RepairUnparsed(1)
    /\ calls[2].validate = 1
    /\ calls[1].fix = 1

\* the validation call of question i returned a text that is no JSON
ValidationUnparsed(i) == ~JsonLoads(calls[i].raw).ok

\* C26: when the validation reply of a question is no JSON, the outcome's
\* valid is true if the reply has the word true and has not the word false,
\* in any case of letters, and false in every other case; its reason is the
\* head of the reply.
C26_HeuristicValid ==
    \A i \in 1..Len(results) :
        ValidationUnparsed(i) =>
            /\ results[i].validation.v[KValid] \in {JLit("true"), JLit("false")}
            /\ results[i].validation.v[KValid] = JLit("true")
                   <=> /\ HasWord(calls[i].raw, "true")
                       /\ ~HasWord(calls[i].raw, "false")
            /\ results[i].validation.v[KReason] = JStr(Prefix(calls[i].raw, ReasonLen))

\* one outcome found valid from the word True, and one found invalid from a
\* reply with both words
C26_Witness ==
    /\ \E i \in 1..Len(results) :
           /\ ValidationUnparsed(i)
           /\ results[i].validation.v[KValid] = JLit("true")
    /\ \E i \in 1..Len(results) :
           /\ ValidationUnparsed(i)
           /\ HasWord(calls[i].raw, "true")
           /\ results[i].validation.v[KValid] = JLit("false")

\* lines 516-523: the counts of the result
ValidCount(rs) == Cardinality({i \in 1..Len(rs) : Truthy(rs[i].validation.v[KValid])})
InvalidCount(rs) == Cardinality({i \in 1..Len(rs) : ~Truthy(rs[i].validation.v[KValid])})
FixedCount(rs) == Cardinality({i \in 1..Len(rs) : rs[i].fixed_question # JNull})

\* C27: the validator fails only when a completion call fails; when it
\* returns, it returns one outcome per question, in the order of the
\* questions, each with a boolean valid; valid_count + invalid_count is the
\* number of questions and fixed_count <= invalid_count, a fixed question
\* being present only on an invalid outcome and only with auto_fix.
C27_OneOutcomeEach ==
    /\ (pc = "error" /\ calls # <<>>) => error = "OpenAIError"
    /\ pc = "validated" =>
           /\ Len(results) = QuestionCount(questions)
           /\ \A i \in 1..Len(results) :
                  /\ results[i].question = questions.v[i]
                  /\ results[i].validation.v[KValid] \in {JLit("true"), JLit("false")}
                  /\ results[i].fixed_question # JNull =>
                         auto_fix /\ results[i].validation.v[KValid] = JLit("false")
           /\ ValidCount(results) + InvalidCount(results) = QuestionCount(questions)
           /\ FixedCount(results) <= InvalidCount(results)

\* the learner the agent ran for has been assessed
Assessed == difficulty_hint # ""

\* C7: the directive is 'increase' exactly when avg_time < 15000 and
\* avg_hints < 0.5, 'decrease' exactly when that does not hold and
\* avg_time > 30000 or avg_hints > 1.0, and 'maintain' in every other case, the
\* boundary values included.
C7_DifficultyPolicy ==
    Assessed =>
        LET fast == /\ avg_time.num < 15000 * avg_time.den
                    /\ 2 * avg_hints.num < avg_hints.den
            slow == \/ avg_time.num > 30000 * avg_time.den
                    \/ avg_hints.num > avg_hints.den
        IN  /\ difficulty_hint \in {"increase difficulty", "decrease difficulty",
                                    "maintain difficulty"}
            /\ difficulty_hint = "increase difficulty" <=> fast
            /\ difficulty_hint = "decrease difficulty" <=> ~fast /\ slow
            /\ difficulty_hint = "maintain difficulty" <=> ~fast /\ ~slow

\* an average time of exactly 15000 with no hints gives 'maintain'
C7_Witness ==
    /\ Assessed
    /\ hist # <<>>
    /\ avg_time.num = 15000 * avg_time.den
    /\ avg_hints.num = 0
    /\ difficulty_hint = "maintain difficulty"

\* C8: for a learner with recorded responses, those submitted to the adaptive
\* endpoint included, the averages of the agent are the arithmetic means of the
\* recorded response times and of the recorded hint counts.
C8_RecordedMeans ==
    Assessed /\ recorded[student_id] # <<>> =>
        /\ avg_time.num * Len(recorded[student_id])
               = avg_time.den * SumOf([i \in 1..Len(recorded[student_id]) |->
                                          recorded[student_id][i].time_ms])
        /\ avg_hints.num * Len(recorded[student_id])
               = avg_hints.den * SumOf([i \in 1..Len(recorded[student_id]) |->
                                           recorded[student_id][i].hints_used])

\* C9: for a learner who is unknown or has an empty history the averages are
\* 20000 and 0.5 and the directive is 'maintain', and the agent goes on to the
\* context and the completion call: it fails only in that call or on its reply.
C9_NeutralDefaults ==
    Assessed /\ (student_id \notin students \/ history[student_id] = <<>>) =>
        /\ avg_time.den > 0 /\ avg_time.num = 20000 * avg_time.den
        /\ avg_hints.den > 0 /\ 2 * avg_hints.num = avg_hints.den
        /\ difficulty_hint = "maintain difficulty"
        /\ pc \in {"adaptive_context", "adaptive_call", "adapted", "error"}
        /\ pc = "error" => error = "OpenAIError" \/ raw # <<>>

\* the agent has returned questions for a learner the store does not know
C9_Witness ==
    /\ pc = "adapted"
    /\ student_id \notin students
    /\ IsArr(questions)
    /\ questions.v # <<>>

\* the text is no JSON, and from its first '[' to its last ']' it is a JSON
\* array of objects
Extractable(reply) ==
    /\ ~JsonLoads(reply).ok
    /\ Find(reply, "[") >= 0
    /\ RFind(reply, "]") > Find(reply, "[")
    /\ LET inner == JsonLoads(SubSeq(reply, Find(reply, "[") + 1, RFind(reply, "]") + 1))
       IN  /\ inner.ok
           /\ IsArr(inner.val)
           /\ \A i \in 1..Len(inner.val.v) : IsObj(inner.val.v[i])

Bracketed(reply) ==
    JsonLoads(SubSeq(reply, Find(reply, "[") + 1, RFind(reply, "]") + 1)).val

\* the returned question is the question of the array: every field of it, but
\* for an explanation Python takes for false and, in the adaptive agent,
\* choices that are no list, which the repair replaces
SameQuestion(returned, given, adaptive) ==
    /\ IsObj(returned)
    /\ DOMAIN returned.v \subseteq DOMAIN given.v \cup {KExplanation, KChoices}
    /\ \A key \in DOMAIN given.v :
           /\ key \in DOMAIN returned.v
           /\ \/ returned.v[key] = given.v[key]
              \/ key = KExplanation /\ ~Truthy(given.v[key])
              \/ key = KChoices /\ adaptive /\ ~IsArr(given.v[key])

\* C10: when the completion text is no JSON but its substring from the first
\* '[' to the last ']' is a JSON array of question objects, the generator and
\* the adaptive agent do not fail and return the questions of that array, one
\* for one and in order.
C10_BracketExtraction ==
    /\ pc = "error" /\ calls = <<>> => ~Extractable(raw)
    /\ pc \in {"generated", "adapted"} =>
           \A given \in {IF Extractable(raw) THEN Bracketed(raw) ELSE JNull} :
               given # JNull =>
                   /\ IsArr(questions)
                   /\ Len(questions.v) = Len(given.v)
                   /\ \A i \in 1..Len(questions.v) :
                          SameQuestion(questions.v[i], given.v[i], pc = "adapted")

\* the generator has returned the two questions of an array that stood in prose
C10_Witness ==
    /\ pc = "generated"
    /\ Extractable(raw)
    /\ Head(raw) = "w"
    /\ Len(questions.v) = MaxQuestions

(***************************************************************************)
(* What a failed parse tells its caller.                                   *)
(***************************************************************************)
\* lines 419 and 604: the text of the ValueError
ParseMessage(adaptive) ==
    IF adaptive THEN <<"Could not parse adaptive generator output">>
    ELSE <<"Could not parse quiz generator output as JSON">>

\* the text an exception of the parsing carries: the ValueError its message,
\* the JSONDecodeError of line 417 or 602 the document it was given, which is
\* the text from the first '[' to the last ']'
Carried(kind, reply, adaptive) ==
    CASE kind = "ValueError" -> ParseMessage(adaptive)
      [] kind = "JSONDecodeError" ->
            SubSeq(reply, Find(reply, "[") + 1, RFind(reply, "]") + 1)
      [] OTHER -> <<>>

\* the generator or the adaptive agent has had a reply from the completion
\* call and has returned or raised
Answered ==
    /\ pc \in {"generated", "adapted", "error"}
    /\ calls = <<>>
    /\ topic # "" /\ book_id # ""
    /\ error # "OpenAIError"

\* neither the text nor its substring from the first '[' to the last ']' is a
\* JSON array
NoArray(reply) ==
    /\ ~(JsonLoads(reply).ok /\ IsArr(JsonLoads(reply).val))
    /\ ~(/\ Find(reply, "[") >= 0
         /\ RFind(reply, "]") > Find(reply, "[")
         /\ LET inner == JsonLoads(SubSeq(reply, Find(reply, "[") + 1,
                                          RFind(reply, "]") + 1))
            IN  inner.ok /\ IsArr(inner.val))

\* C11: when neither parse of the completion text yields a JSON array the
\* agent fails with an error that carries the whole completion text, and
\* returns no questions.
C11_StructuredOutputError ==
    Answered /\ NoArray(raw) =>
        /\ pc = "error"
        /\ questions = JNull
        /\ Carried(error, raw, student_id # "") = raw

(***************************************************************************)
(* The explanations of the returned questions.                             *)
(***************************************************************************)
\* the value the agent parsed from the completion text
Given(reply) ==
    LET strict == JsonLoads(reply)
    IN  IF strict.ok THEN strict.val ELSE Bracketed(reply)

\* the explanation that names the label the question declares, A if it
\* declares none
Synthesized(q) ==
    JStr(<<"Based on the context, ">>
             \o (IF KCorrect \in DOMAIN q.v THEN q.v[KCorrect].v ELSE <<"A">>)
             \o <<" is the correct answer.">>)

HasExplanation(q) == KExplanation \in DOMAIN q.v /\ Truthy(q.v[KExplanation])

\* C12: every question the generator or the adaptive agent returns has a
\* non-empty explanation: the one the completion gave if that was non-empty,
\* else the synthesized text naming the question's correct label.
C12_ExplanationBackfill ==
    pc \in {"generated", "adapted"} /\ IsArr(questions) =>
        \A given \in {Given(raw)} :
            \A i \in 1..Len(questions.v) :
                /\ HasExplanation(questions.v[i])
                /\ questions.v[i].v[KExplanation] =
                      IF HasExplanation(given.v[i])
                      THEN given.v[i].v[KExplanation]
                      ELSE Synthesized(given.v[i])

\* returned questions of which the completion gave one a non-empty
\* explanation, one an empty explanation and a label, and one no explanation
C12_Witness ==
    /\ pc \in {"generated", "adapted"}
    /\ IsArr(questions)
    /\ \E i \in 1..Len(questions.v) : HasExplanation(Given(raw).v[i])
    /\ \E i \in 1..Len(questions.v) :
           /\ KExplanation \in DOMAIN Given(raw).v[i].v
           /\ ~Truthy(Given(raw).v[i].v[KExplanation])
           /\ questions.v[i].v[KExplanation] = Synthesized(OddQuestion)

\* C22: every fixed question of an outcome of the validator is a question
\* object with exactly four choices, a correct label among A-D and a non-empty
\* explanation, whatever JSON the repair call returned.
C22_FixedRepaired ==
    \A i \in 1..Len(results) :
        results[i].fixed_question # JNull =>
            /\ IsObj(results[i].fixed_question)
            /\ Closed(results[i].fixed_question)
            /\ HasExplanation(results[i].fixed_question)

(***************************************************************************)
(* The context of the generator.                                           *)
(***************************************************************************)
\* the k-th smallest number of a set of numbers
Nth(S, k) == CHOOSE i \in S : Cardinality({j \in S : j < i}) = k - 1

\* the results of the query that are of the requested book
OfBook == {i \in 1..Len(retrieved) : retrieved[i].meta.bookId = book_id}

\* the context is made of the results numbered in S, in their order
ContextIs(S) ==
    /\ Len(context) = Cardinality(S)
    /\ \A k \in 1..Len(context) :
           /\ context[k].doc = retrieved[Nth(S, k)].doc
           /\ context[k].position = retrieved[Nth(S, k)].meta.position
           /\ context[k].chunk = k

\* C13: the context of the generator is made of exactly the retrieved chunks
\* of the requested book if there is one, and of all retrieved chunks if there
\* is none.
C13_BookFilter ==
    pc \in {"generator_call", "generated"} =>
        IF OfBook # {} THEN ContextIs(OfBook) ELSE ContextIs(1..Len(retrieved))

\* three chunks were retrieved, two of them of the requested book, and the
\* context holds those two
C13_Witness ==
    /\ pc = "generator_call"
    /\ Len(retrieved) = 3
    /\ Cardinality(OfBook) = 2
    /\ Len(context) = 2

\* the context of the adaptive agent is made of the results numbered in S
AdaptiveContextIs(S) ==
    /\ Len(context) = Cardinality(S)
    /\ \A k \in 1..Len(context) :
           /\ context[k].doc = retrieved[Nth(S, k)].doc
           /\ context[k].pos = retrieved[Nth(S, k)].meta.position
           /\ context[k].bookId = retrieved[Nth(S, k)].meta.bookId

\* C23: the context of the adaptive agent is the one the generator builds for
\* the same results and book: the retrieved chunks of the requested book only
\* if there is one, and all retrieved chunks if there is none.
C23_AdaptiveBookFilter ==
    pc \in {"adaptive_call", "adapted"} =>
        IF OfBook # {} THEN AdaptiveContextIs(OfBook)
        ELSE AdaptiveContextIs(1..Len(retrieved))

\* C24: the parts of the generator's context stand in ascending order of the
\* position of their chunks, whatever the order of the results, and each part
\* carries the position and the relevance of its chunk.
C24_PositionOrdered ==
    pc \in {"generator_call", "generated"} =>
        /\ \A k \in 1..Len(context) - 1 :
               context[k].position <= context[k + 1].position
        /\ \A k \in 1..Len(context) :
               \E i \in 1..Len(retrieved) :
                   /\ context[k].doc = retrieved[i].doc
                   /\ context[k].position = retrieved[i].meta.position
                   /\ context[k].relevance = 10 - retrieved[i].dist

\* C25: for every chunk of the generator's context, whose distance d the
\* index returned, the relevance in the label of its context part and the
\* relevance_score of its entry in retrieved_chunks_info are 1 - d.
C25_Relevance ==
    pc = "generated" =>
        \A rel \in {RelevantChunks(retrieved, book_id)} :
            \A k \in 1..Len(rel) :
                /\ context[k].relevance = 10 - rel[k].dist
                /\ RetrievedChunksInfo(rel)[k].relevance_score = Scored(10 - rel[k].dist)

(***************************************************************************)
(* A query of the index that fails.                                        *)
(***************************************************************************)
\* the last query of the index failed: a query that succeeds on an index
\* with chunks returns at least one of them
QueryFailed ==
    /\ pc \notin {"generator", "adaptive_endpoint", "adaptive", "assess",
                  "adaptive_context"}
    /\ topic # "" /\ book_id # ""
    /\ index # <<>>
    /\ retrieved = <<>>

\* C14: when the query of the index fails, the agent fails: it makes no
\* completion call and returns no questions and no validation results.
C14_QueryFailurePropagates ==
    QueryFailed =>
        /\ pc = "error"
        /\ results = <<>>
        /\ \A i \in 1..Len(calls) : calls[i].validate = 0 /\ calls[i].fix = 0
        /\ calls = <<>> => raw = <<>> /\ questions = JNull

(***************************************************************************)
(* generate_quiz up to the ingestion, on a sequence of uploads.  The rest  *)
(* of a request is the generator and the validator of SpecQuiz.            *)
(***************************************************************************)
\* the keys push() gives the book records, each one new
BookKeys == <<"b1", "b2", "b3", "b4">>

\* the documents that are uploaded
IngestDocs == {<<"a">>, <<"b">>}

\* check_chunks_exist: the number of chunks of the book in the index, 0 when
\* the lookup fails
ChunksExist(collection, book) ==
    {Len(SelectSeq(collection, LAMBDA c : c.metadata.bookId = book)), 0}

\* update_book_chunk_count
WithChunkCount(records, book, n) ==
    [i \in 1..Len(records) |->
        IF records[i].id = book THEN [records[i] EXCEPT !.chunk_count = n]
        ELSE records[i]]

InitIngest ==
    /\ pc = "upload"
    /\ text = <<>>
    /\ chunk_size = AppChunkSize
    /\ chunks = <<>>
    /\ IdleBatch
    /\ IdleQuiz

\* app.py 241-246 and create_book: a request with a document gets a book
\* record under a new key; file is the document the record was made for
CreateBook(doc) ==
    /\ pc \in {"upload", "ingested", "error"}
    /\ Len(books) < MaxBooks
    /\ books' = Append(books, [id |-> BookKeys[Len(books) + 1], file |-> doc,
                               chunk_count |-> 0])
    /\ book_id' = BookKeys[Len(books) + 1]
    /\ text' = doc
    /\ chunk_size' = AppChunkSize
    /\ chunks' = <<>>
    /\ batchStart' = 0
    /\ wstate' = <<>>
    /\ slots' = <<>>
    /\ delivered' = <<>>
    /\ order' = <<>>
    /\ db_chunks' = <<>>
    /\ inserted_chunks' = -1
    /\ pc' = "exists"
    /\ UNCHANGED <<callYields, index, genVars, valVars, storeVars, adaptVars,
                   quizzes, uploadVars>>

\* app.py 251-262: the existence check, and the branch that skips
\* run_curriculum_agent
CheckChunks ==
    /\ pc = "exists"
    /\ \E existing \in ChunksExist(index, book_id) :
           IF existing > 0
           THEN /\ books' = WithChunkCount(books, book_id, existing)
                /\ inserted_chunks' = existing
                /\ pc' = "ingested"
           ELSE /\ pc' = "start"
                /\ UNCHANGED <<books, inserted_chunks>>
    /\ UNCHANGED <<chunkVars, book_id, callYields, batchStart, wstate, slots,
                   delivered, order, db_chunks, index, genVars, valVars,
                   storeVars, adaptVars, quizzes, uploadVars>>

\* app.py 274-278, after run_curriculum_agent has returned
UpdateChunkCount ==
    /\ pc = "done"
    /\ books' = WithChunkCount(books, book_id, inserted_chunks)
    /\ pc' = "ingested"
    /\ UNCHANGED <<chunkVars, batchVars, genVars, valVars, storeVars, adaptVars,
                   quizzes, uploadVars>>

NextIngest ==
    \/ \E doc \in IngestDocs : CreateBook(doc)
    \/ CheckChunks
    \/ ChunkText
    \/ StartBatch
    \/ \E w \in DOMAIN wstate : WorkerStart(w)
    \/ \E w \in DOMAIN wstate, out \in BatchOutcomes : WorkerReturn(w, out)
    \/ GatherDone
    \/ StoreChunks
    \/ UpdateChunkCount

SpecIngest == InitIngest /\ [][NextIngest]_vars

\* the chunks of a book in the index
ChunksOf(book) == SelectSeq(index, LAMBDA c : c.metadata.bookId = book)

\* C15: a document that already has chunks in the index is not ingested again:
\* a later request for the same document adds no chunks to the index.
C15_ReingestNoOp ==
    \A i, j \in 1..Len(books) :
        i < j /\ books[i].file = books[j].file /\ ChunksOf(books[i].id) # <<>>
            => ChunksOf(books[j].id) = <<>>

\* the branch that skips the curriculum agent is never taken: no request finds
\* chunks under the key of the book it has just created
SkipNeverTaken == pc = "exists" => ChunksOf(book_id) = <<>>

(***************************************************************************)
(* The quiz an endpoint stores.                                            *)
(***************************************************************************)
\* a list that takes every invalid question left as it is, whatever n
FinalQuestionsAll(rs, n) ==
    LET chosen == SelectSeq(rs, LAMBDA r : Truthy(r.fixed_question)
                                            \/ Truthy(r.validation.v[KValid]))
        left == SelectSeq(rs, LAMBDA r : ~Truthy(r.fixed_question)
                                          /\ ~Truthy(r.validation.v[KValid]))
    IN  [i \in 1..Len(chosen) |->
            IF Truthy(chosen[i].fixed_question) THEN chosen[i].fixed_question
            ELSE chosen[i].question]
        \o [i \in 1..Len(left) |-> left[i].question]

\* app.py 306-318: the repaired question if there is one, else the question
\* if it is valid; then, while fewer than n, the invalid questions left as
\* they are
FinalQuestions(rs, n) ==
    LET chosen == SelectSeq(rs, LAMBDA r : Truthy(r.fixed_question)
                                            \/ Truthy(r.validation.v[KValid]))
        left == SelectSeq(rs, LAMBDA r : ~Truthy(r.fixed_question)
                                          /\ ~Truthy(r.validation.v[KValid]))
    IN  [i \in 1..Len(chosen) |->
            IF Truthy(chosen[i].fixed_question) THEN chosen[i].fixed_question
            ELSE chosen[i].question]
        \o [i \in 1..Min(Len(left), IF n > Len(chosen) THEN n - Len(chosen) ELSE 0)
               |-> left[i].question]

\* line 300 of create_quiz: f"q{i}", the letter q and the decimal digits of i
QuestionKey(i) == IF i < 10 THEN <<"q", i>> ELSE <<"q", i \div 10, i % 10>>

\* lines 298-312: questions_dict, the stored questions under their keys
QuestionsDict(stored) ==
    [key \in {QuestionKey(i) : i \in 1..Len(stored)} |->
        stored[CHOOSE i \in 1..Len(stored) : QuestionKey(i) = key]]

\* ord(c) - ord('A') for a capital letter
LabelIndex(c) ==
    CHOOSE k \in 0..25 :
        <<"A", "B", "C", "D", "E", "F", "G", "H", "I", "J", "K", "L", "M", "N",
          "O", "P", "Q", "R", "S", "T", "U", "V", "W", "X", "Y", "Z">>[k + 1] = c

\* lines 301-312 of create_quiz for one question: choices[0], choices[1] and
\* choices[2] of a list or a string, choices[3] if there are more than three,
\* and ord(correct) - ord('A')
StoredQuestion(q) ==
    LET choices == Get(q, KChoices, JArr(<<EmptyStr, EmptyStr, EmptyStr, EmptyStr>>))
        correct == Get(q, KCorrect, Letter("A"))
        item(k) == IF IsArr(choices) THEN choices.v[k] ELSE Letter(choices.v[k])
    IN  IF ~IsObj(q) THEN Failed("AttributeError")
        ELSE IF choices.k \notin {"arr", "str"} THEN Failed("TypeError")
        ELSE IF Len(choices.v) < 3 THEN Failed("IndexError")
        ELSE IF correct.k # "str" \/ Len(correct.v) # 1 THEN Failed("TypeError")
        ELSE Passed([text |-> Get(q, KQuestion, EmptyStr),
                     options |-> <<item(1), item(2), item(3),
                                   IF Len(choices.v) > 3 THEN item(4) ELSE EmptyStr>>,
                     correctIndex |-> LabelIndex(correct.v[1]),
                     hint |-> Get(q, KHint, EmptyStr),
                     explanation |-> Get(q, KExplanation, EmptyStr)])

\* create_quiz: the stored form of every question, and the questions as they
\* were given; the exception of the first question that raises one
CreateQuiz(qs) ==
    IF \E i \in 1..Len(qs) : StoredQuestion(qs[i]).error # ""
    THEN Failed(StoredQuestion(qs[CHOOSE i \in 1..Len(qs) :
                                      /\ StoredQuestion(qs[i]).error # ""
                                      /\ \A j \in 1..i - 1 :
                                             StoredQuestion(qs[j]).error = ""]).error)
    ELSE Passed([stored |-> [i \in 1..Len(qs) |-> StoredQuestion(qs[i]).val],
                 questions |-> qs,
                 attempts |-> <<[questions |->
                                     QuestionsDict([i \in 1..Len(qs) |->
                                                       StoredQuestion(qs[i]).val]),
                                 total |-> Len(qs),
                                 trueCount |-> 0,
                                 falseCount |-> 0]>>])

\* Quiz.create of an endpoint with these questions
Save(qs) ==
    \E r \in {CreateQuiz(qs)} :
        /\ error' = r.error
        /\ quizzes' = IF r.error = "" THEN Append(quizzes, r.val) ELSE quizzes
        /\ pc' = IF r.error = "" THEN "saved" ELSE "save_error"

\* app.py 305-341: generate_quiz after the validator, which it calls with
\* auto_fix; n is the number of questions the request asked for
SaveQuiz(n) ==
    /\ pc = "validated"
    /\ auto_fix
    /\ Save(FinalQuestions(results, n))
    /\ UNCHANGED <<chunkVars, batchVars, topic, retrieved, context, raw, questions,
                   valVars, storeVars, adaptVars, books, uploadVars>>

\* app.py 471-496: generate_adaptive_quiz after the adaptive agent
SaveAdaptiveQuiz ==
    /\ pc = "adapted"
    /\ Save(IF IsArr(questions) THEN questions.v ELSE <<>>)
    /\ UNCHANGED <<chunkVars, batchVars, topic, retrieved, context, raw, questions,
                   valVars, storeVars, adaptVars, books, uploadVars>>

NextSave ==
    \/ NextQuiz
    \/ \E n \in 1..MaxQuestions : SaveQuiz(n)
    \/ SaveAdaptiveQuiz

SpecSave == InitQuiz /\ [][NextSave]_vars

\* an outcome with a fixed question, or a valid one
Resolved(r) == r.fixed_question # JNull \/ r.validation.v[KValid] = JLit("true")

\* the list is made for n questions from the outcomes: the fixed question of
\* every outcome that has one and the question of every other valid outcome,
\* in the order of the outcomes, then questions of unresolved outcomes in
\* their order, and none of these beyond n entries
SavedFrom(list, rs, n) ==
    LET res == SelectSeq(rs, Resolved)
        unres == SelectSeq(rs, LAMBDA r : ~Resolved(r))
    IN  /\ Len(list) >= Len(res)
        /\ \A i \in 1..Len(res) :
               list[i] = IF res[i].fixed_question # JNull THEN res[i].fixed_question
                         ELSE res[i].question
        /\ Len(list) - Len(res) <= Len(unres)
        /\ \A i \in 1..Len(list) - Len(res) : list[Len(res) + i] = unres[i].question
        /\ Len(list) > Len(res) => Len(list) <= n
        /\ Len(list) < n => Len(list) = Len(rs)

C16_StoredQuestions ==
    \A k \in 1..Len(quizzes) :
        \A i \in 1..Len(quizzes[k].stored) :
            LET q == quizzes[k].questions[i]
                st == quizzes[k].stored[i]
            IN  /\ KChoices \in DOMAIN q.v
                /\ IsArr(q.v[KChoices])
                /\ q.v[KChoices].v = st.options
                /\ st.correctIndex \in 0..3
                /\ KCorrect \in DOMAIN q.v
                /\ q.v[KCorrect] = Letter(<<"A", "B", "C", "D">>[st.correctIndex + 1])

(***************************************************************************)
(* The uploaded file of generate_quiz, with the workers of the server.     *)
(***************************************************************************)
InitUpload ==
    /\ pc = "serving"
    /\ text = <<>>
    /\ chunk_size = AppChunkSize
    /\ chunks = <<>>
    /\ IdleBatch
    /\ IdleQuiz

\* what a step of a request leaves alone, the folder and the requests apart
ServerVars == <<pc, chunkVars, batchVars, genVars, valVars, storeVars, adaptVars,
                books, quizzes>>

\* app.py 204-206: temp_path is the folder joined with the name of the upload,
\* and file.save(temp_path) writes the upload there, over a file of that name
SaveUpload(w, name) ==
    /\ requests[w].pc \in {"idle", "returned"}
    /\ upload_folder' = [upload_folder EXCEPT ![name] = w]
    /\ requests' = [requests EXCEPT ![w] = [pc |-> "saved", filename |-> name,
                                           text |-> 0, status |-> 0]]
    /\ UNCHANGED ServerVars

\* app.py 211 and get_pdf_info: FileNotFoundError if the file is not there
GetPdfInfo(w) ==
    /\ requests[w].pc = "saved"
    /\ requests' = IF upload_folder[requests[w].filename] = 0
                   THEN [requests EXCEPT ![w].pc = "cleanup", ![w].status = 500]
                   ELSE [requests EXCEPT ![w].pc = "info"]
    /\ UNCHANGED <<upload_folder, ServerVars>>

\* app.py 212-217 and extract_text_from_pdf: the text of the file that is
\* there, FileNotFoundError if none is; a text found invalid ends the request
ExtractText(w, valid) ==
    /\ requests[w].pc = "info"
    /\ requests' = [requests EXCEPT
                       ![w].text = upload_folder[requests[w].filename],
                       ![w].pc = IF upload_folder[requests[w].filename] # 0 /\ valid
                                 THEN "pipeline" ELSE "cleanup",
                       ![w].status = IF upload_folder[requests[w].filename] = 0 THEN 500
                                     ELSE IF valid THEN 0 ELSE 400]
    /\ UNCHANGED <<upload_folder, ServerVars>>

\* app.py 219-372: the rest of the request, to its response or an exception
RunPipeline(w, status) ==
    /\ requests[w].pc = "pipeline"
    /\ requests' = [requests EXCEPT ![w].pc = "cleanup", ![w].status = status]
    /\ UNCHANGED <<upload_folder, ServerVars>>

\* app.py 374-378, the finally: the file at temp_path is removed if it exists
RemoveUpload(w) ==
    /\ requests[w].pc = "cleanup"
    /\ upload_folder' = [upload_folder EXCEPT ![requests[w].filename] = 0]
    /\ requests' = [requests EXCEPT ![w].pc = "returned"]
    /\ UNCHANGED ServerVars

NextUpload ==
    \E w \in 1..workers :
        \/ \E name \in UploadNames : SaveUpload(w, name)
        \/ GetPdfInfo(w)
        \/ \E valid \in BOOLEAN : ExtractText(w, valid)
        \/ \E status \in {200, 500} : RunPipeline(w, status)
        \/ RemoveUpload(w)

SpecUpload == InitUpload /\ [][NextUpload]_vars

\* C29: from the save of a request's upload to the end of its text extraction
\* the file under its name holds that upload, which no other request has
\* removed or overwritten, and the text extracted is that of the upload; when
\* the request has returned, the file it saved is no longer there.
C29_TempFileKept ==
    \A w \in 1..workers :
        /\ requests[w].pc \in {"saved", "info"} =>
               upload_folder[requests[w].filename] = w
        /\ requests[w].pc = "pipeline" => requests[w].text = w
        /\ requests[w].pc = "returned" =>
               upload_folder[requests[w].filename] # w


(***************************************************************************)
(* The record store: create_quiz, record_quiz_attempt and get_quiz.        *)
(***************************************************************************)
\* a question of a level, with a hint
StoreQuestion(letter, level) ==
    JObj((KQuestion :> Letter(letter))
         @@ (KChoices :> JArr(<<Letter("a"), Letter("b"), Letter("c"), Letter("d")>>))
         @@ (KCorrect :> Letter("C"))
         @@ (KExplanation :> Letter("E"))
         @@ (KHint :> Letter("H"))
         @@ (KDifficulty :> JStr(<<level>>)))

MediumQuestion == StoreQuestion("Q", "medium")
HardQuestion == StoreQuestion("R", "hard")

\* the lists of questions a quiz is created with: every list of one or two
\* questions, and the lists of ManyQuestions questions that are all the medium
\* question or have the hard question at one place
StoreQuestionLists ==
    UNION {[1..m -> {MediumQuestion, HardQuestion}] : m \in 1..2}
        \cup {[i \in 1..ManyQuestions |-> MediumQuestion]}
        \cup {[i \in 1..ManyQuestions |-> IF i = j THEN HardQuestion ELSE MediumQuestion] :
                 j \in 1..ManyQuestions}

InitStore ==
    /\ pc = "store"
    /\ text = <<>>
    /\ chunk_size = AppChunkSize
    /\ chunks = <<>>
    /\ IdleBatch
    /\ IdleQuiz

\* create_quiz with a list of questions
CreateStoredQuiz(qs) ==
    /\ pc = "store"
    /\ Len(quizzes) < MaxQuizzes
    /\ CreateQuiz(qs).error = ""
    /\ quizzes' = Append(quizzes, CreateQuiz(qs).val)
    /\ UNCHANGED <<pc, chunkVars, batchVars, genVars, valVars, storeVars, adaptVars,
                   books, uploadVars>>

\* record_quiz_attempt for quiz k: the attempt goes to the history of the
\* student, and with the questions of the first attempt to the attempts of the
\* quiz, under the key the history gave it: at is its place among the keys
RecordQuizAttempt(k, student, responses, at) ==
    /\ pc = "store"
    /\ k \in 1..Len(quizzes)
    /\ quizzes[k].attempts # <<>>
    /\ Len(quizzes[k].attempts) <= MaxAttempts
    /\ at \in 0..Len(quizzes[k].attempts)
    /\ history' = [history EXCEPT ![student] = Append(@, AttemptData(responses))]
    /\ quizzes' = [quizzes EXCEPT ![k].attempts =
                       SubSeq(@, 1, at)
                           \o <<[questions |-> quizzes[k].attempts[1].questions]
                                    @@ AttemptData(responses)>>
                           \o SubSeq(@, at + 1, Len(@))]
    /\ UNCHANGED <<pc, chunkVars, batchVars, genVars, valVars, students, recorded,
                   adaptVars, books, uploadVars>>

\* int(x[1:]) of a key
KeyNumber(key) ==
    IF Len(key) = 2 THEN key[2] ELSE 10 * key[2] + key[3]

\* line 378 of get_quiz: sorted(keys, key=lambda x: int(x[1:]))
RECURSIVE SortedKeys(_)
SortedKeys(keys) ==
    IF keys = {} THEN <<>>
    ELSE LET first == CHOOSE key \in keys :
                          \A other \in keys : KeyNumber(key) <= KeyNumber(other)
         IN  <<first>> \o SortedKeys(keys \ {first})

\* lines 379-398 of get_quiz: the question of the list for a stored question
ListedQuestion(q_data) ==
    JObj((KQuestion :> q_data.text)
         @@ (KChoices :> JArr(q_data.options))
         @@ (KCorrect :> Letter(<<"A", "B", "C", "D", "E", "F", "G", "H", "I", "J",
                                  "K", "L", "M", "N", "O", "P", "Q", "R", "S", "T",
                                  "U", "V", "W", "X", "Y", "Z">>[q_data.correctIndex + 1]))
         @@ (KHint :> q_data.hint)
         @@ (KDifficulty :> IF "difficulty" \in DOMAIN q_data THEN q_data.difficulty
                            ELSE JStr(<<"medium">>))
         @@ (KExplanation :> q_data.explanation))

\* get_quiz of quiz k: the questions of the first attempt, in the order of
\* the numbers of their keys
GetQuiz(k) ==
    LET questions_dict == quizzes[k].attempts[1].questions
        keys == SortedKeys(DOMAIN questions_dict)
    IN  [i \in 1..Len(keys) |-> ListedQuestion(questions_dict[keys[i]])]

NextStore ==
    \/ \E qs \in StoreQuestionLists : CreateStoredQuiz(qs)
    \/ \E k \in 1..MaxQuizzes, student \in StudentIds,
          responses \in {<<FastResponse>>, <<FastResponse, SlowResponse>>},
          at \in 0..MaxAttempts + 1 :
           RecordQuizAttempt(k, student, responses, at)

SpecStore == InitStore /\ [][NextStore]_vars

\* C30: get_quiz of a quiz gives the questions the quiz was created with, in
\* their order, each with the same question text, choices, correct label,
\* hint, explanation and difficulty, after any number of recorded attempts.
C30_RoundTrip ==
    pc = "store" =>
        \A k \in 1..Len(quizzes) : GetQuiz(k) = quizzes[k].questions
====
